---- MODULE Spec2Model ----
(***************************************************************************)
(* Moltbook agent development kit, OpenClaw skill.                         *)
(*                                                                         *)
(* lib/client.js  MoltbookClient: one method per remote operation, each a  *)
(*                single HTTP request built by request().                  *)
(* index.js       credential store, register, feed filter, heartbeat gate. *)
(*                                                                         *)
(* JavaScript values are modelled as tagged records, JavaScript strings as *)
(* sequences of one-character strings, so that URL construction, percent   *)
(* encoding, parseInt and truthiness are computed as the engine computes   *)
(* them.                                                                   *)
(***************************************************************************)
EXTENDS Integers, Sequences, FiniteSets, TLC

(***************************************************************************)
(* JavaScript values                                                       *)
(***************************************************************************)
Undefined == [t |-> "undefined"]

Null == [t |-> "null"]

NaN == [t |-> "NaN"]

Num(n) == [t |-> "number", n |-> n]

Str(s) == [t |-> "string", s |-> s]

Arr(a) == [t |-> "array", a |-> a]

Obj(o) == [t |-> "object", o |-> o]

Bool(b) == [t |-> "boolean", b |-> b]

\* The empty object literal {}.
EmptyObj == Obj(<<>>)

\* ToBoolean: undefined, null, false, NaN, 0 and "" are falsy; arrays and
\* objects (also empty ones) are truthy.
Truthy(v) ==
  CASE v.t = "undefined" -> FALSE
    [] v.t = "null" -> FALSE
    [] v.t = "NaN" -> FALSE
    [] v.t = "boolean" -> v.b
    [] v.t = "number" -> v.n # 0
    [] v.t = "string" -> Len(v.s) > 0
    [] OTHER -> TRUE

\* a || b
Or(a, b) == IF Truthy(a) THEN a ELSE b

\* Property read v.key on a value that is neither null nor undefined: the own
\* property of an object, undefined otherwise.
Get(v, key) ==
  IF v.t = "object" /\ key \in DOMAIN v.o THEN v.o[key] ELSE Undefined

\* Reading a property of null or undefined throws a TypeError.
Nullish(v) == v.t \in {"undefined", "null"}

(***************************************************************************)
(* Strings                                                                 *)
(***************************************************************************)
Digits == <<"0", "1", "2", "3", "4", "5", "6", "7", "8", "9">>

DigitChars == {Digits[i] : i \in 1..10}

DigitValue(c) == (CHOOSE i \in 1..10 : Digits[i] = c) - 1

\* Number.prototype.toString() of an integer.
RECURSIVE NatToString(_)
NatToString(n) ==
  IF n < 10 THEN <<Digits[n + 1]>>
  ELSE NatToString(n \div 10) \o <<Digits[(n % 10) + 1]>>

NumberToString(n) == IF n < 0 THEN <<"-">> \o NatToString(-n) ELSE NatToString(n)

\* value.toString() for the option values the client stringifies.
toString(v) ==
  CASE v.t = "number" -> NumberToString(v.n)
    [] v.t = "string" -> v.s
    [] OTHER -> <<>>

WhiteSpace == {" "}

RECURSIVE SkipWhite(_)
SkipWhite(s) ==
  IF s # <<>> /\ Head(s) \in WhiteSpace THEN SkipWhite(Tail(s)) ELSE s

RECURSIVE DigitPrefix(_)
DigitPrefix(s) ==
  IF s # <<>> /\ Head(s) \in DigitChars
  THEN <<Head(s)>> \o DigitPrefix(Tail(s))
  ELSE <<>>

RECURSIVE DigitsValue(_, _)
DigitsValue(s, acc) ==
  IF s = <<>> THEN acc ELSE DigitsValue(Tail(s), acc * 10 + DigitValue(Head(s)))

\* parseInt(s): leading white space is skipped, an optional sign is read,
\* then the longest prefix of decimal digits; NaN when there is no digit.
parseInt(s) ==
  LET t == SkipWhite(s)
      neg == t # <<>> /\ Head(t) = "-"
      u == IF t # <<>> /\ Head(t) \in {"-", "+"} THEN Tail(t) ELSE t
      d == DigitPrefix(u)
  IN IF d = <<>> THEN NaN
     ELSE Num(IF neg THEN -DigitsValue(d, 0) ELSE DigitsValue(d, 0))

\* Characters encodeURIComponent leaves alone: A-Z a-z 0-9 - _ . ! ~ * ' ( )
UriUnreserved ==
  {"a", "b", "c", "d", "e", "f", "g", "h", "i", "j", "k", "l", "m", "n", "o",
   "p", "q", "r", "s", "t", "u", "v", "w", "x", "y", "z", "A", "B", "C", "D",
   "E", "F", "-", "_", ".", "!", "~", "*", "'", "(", ")"} \cup DigitChars

\* The UTF-8 percent escape of the other ASCII characters of the model.
PercentEscape ==
  " " :> <<"%", "2", "0">> @@ "/" :> <<"%", "2", "F">> @@ "?" :> <<"%", "3", "F">> @@ "#" :> <<"%", "2", "3">> @@
  "%" :> <<"%", "2", "5">> @@ "&" :> <<"%", "2", "6">> @@ "=" :> <<"%", "3", "D">> @@ "+" :> <<"%", "2", "B">> @@
  ":" :> <<"%", "3", "A">>

RECURSIVE encodeURIComponent(_)
encodeURIComponent(s) ==
  IF s = <<>> THEN <<>>
  ELSE (IF Head(s) \in UriUnreserved THEN <<Head(s)>> ELSE PercentEscape[Head(s)])
       \o encodeURIComponent(Tail(s))

\* Characters the application/x-www-form-urlencoded serializer leaves alone:
\* A-Z a-z 0-9 * - . _ ; a space becomes "+".
FormUnreserved ==
  (UriUnreserved \ {"!", "~", "'", "(", ")"})

FormEscape ==
  " " :> <<"+">> @@ "!" :> <<"%", "2", "1">> @@ "~" :> <<"%", "7", "E">> @@ "'" :> <<"%", "2", "7">> @@
  "(" :> <<"%", "2", "8">> @@ ")" :> <<"%", "2", "9">> @@ PercentEscape

RECURSIVE FormEncode(_)
FormEncode(s) ==
  IF s = <<>> THEN <<>>
  ELSE (IF Head(s) \in FormUnreserved THEN <<Head(s)>> ELSE FormEscape[Head(s)])
       \o FormEncode(Tail(s))

\* URLSearchParams: an ordered list of <<name, value>> pairs.
\* `${params}` joins name=value with "&", both form-encoded.
RECURSIVE URLSearchParamsToString(_)
URLSearchParamsToString(params) ==
  IF params = <<>> THEN <<>>
  ELSE FormEncode(Head(params)[1]) \o <<"=">> \o FormEncode(Head(params)[2])
       \o (IF Tail(params) = <<>> THEN <<>>
           ELSE <<"&">> \o URLSearchParamsToString(Tail(params)))

(***************************************************************************)
(* Bounds and inputs                                                       *)
(***************************************************************************)
\* Rate-limit header values are the decimal strings of 0..MaxHeaderValue.
MaxHeaderValue == 1

\* Numeric list options (limit, offset) range over 0..MaxLimit.
MaxLimit == 1

\* Caller-supplied identifiers (agent name, submolt name, post id, comment id).
Idents == {<<"p", "1">>, <<"a", " ", "b", "/", "c">>}

\* API keys a client instance is constructed with: none, "", a key.
ApiKeys == {Undefined, Str(<<>>), Str(<<"s", "k", "1">>)}

\* The API key a successful registration issues.
IssuedKey == Str(<<"s", "k", "2">>)

\* Option objects passed to the list, feed and search methods.
SortValues == {Str(<<"h", "o", "t">>), Str(<<"t", "o", "p">>)}

OptionSets ==
  {EmptyObj}
  \cup {Obj("sort" :> s) : s \in SortValues}
  \cup {Obj("limit" :> Num(n)) : n \in 0..MaxLimit}
  \cup {Obj("sort" :> Str(<<"n", "e", "w">>) @@ "limit" :> Num(MaxLimit) @@ "offset" :> Num(n)) :
          n \in 0..MaxLimit}
  \cup {Obj("submolt" :> Str(<<"m", "/", "x">>) @@ "timeRange" :> Str(<<"d", "a", "y">>))}

\* Payloads of the create/update/register methods.
PostData == Obj("submolt" :> Str(<<"m">>) @@ "title" :> Str(<<"t">>))

DataSets == {Undefined, Null, EmptyObj, PostData}

CommentData == {Obj("postId" :> Str(id) @@ "content" :> Str(<<"h", "i">>)) : id \in Idents}

SubmoltData ==
  {Obj("name" :> Str(<<"m">>) @@ "displayName" :> Str(<<"M">>)),
   Obj("name" :> Str(<<"m">>) @@ "displayName" :> Str(<<"M">>) @@ "description" :> Str(<<"d">>))}

RegisterData == {Obj("name" :> Str(<<"b", "o", "t">>) @@ "description" :> Str(<<"d">>))}

(***************************************************************************)
(* Responses of the server                                                 *)
(***************************************************************************)
\* A body that response.json() cannot parse.
Unparseable == [t |-> "unparseable"]

HeaderValues == {<<>>, <<"x">>} \cup {NatToString(n) : n \in 0..MaxHeaderValue}

\* The x-ratelimit-* headers of a response; an absent header is missing from
\* the record.
RateHeaders ==
  {<<>>, "x-ratelimit-limit" :> <<"x">>}
  \cup {("x-ratelimit-limit" :> NatToString(MaxHeaderValue) @@ "x-ratelimit-remaining" :> r
         @@ "x-ratelimit-reset" :> <<"1", "7">>) : r \in HeaderValues}

Post(id) == Obj("id" :> Str(id))

SuccessBodies ==
  {EmptyObj, Null, Unparseable,
   Obj("data" :> Arr(<<Post(<<"p", "1">>)>>) @@ "posts" :> Arr(<<Post(<<"p", "2">>)>>)
       @@ "submolts" :> Arr(<<Post(<<"s", "1">>)>>) @@ "comments" :> Arr(<<Post(<<"c", "1">>)>>)),
   Obj("data" :> Arr(<<>>) @@ "posts" :> Arr(<<Post(<<"p", "2">>)>>)),
   Obj("posts" :> Arr(<<Post(<<"p", "2">>)>>) @@ "submolts" :> Arr(<<Post(<<"s", "1">>)>>)
       @@ "comments" :> Arr(<<Post(<<"c", "1">>)>>)),
   Obj("agent" :> Obj("name" :> Str(<<"b", "o", "t">>) @@ "api_key" :> IssuedKey)
       @@ "post" :> Post(<<"p", "1">>) @@ "comment" :> Post(<<"c", "1">>) @@ "submolt" :> Post(<<"s", "1">>))}

ErrorBodies ==
  {Unparseable, Null, EmptyObj,
   Obj("message" :> Str(<<"s", "l", "o", "w", " ", "d", "o", "w", "n">>) @@ "retryAfter" :> Num(30)),
   Obj("message" :> Str(<<"n", "o">>))}

OkStatus == {200, 201}

ErrorStatus == {401, 404, 429, 500}

StatusText ==
  200 :> <<"O", "K">> @@ 201 :> <<"C", "r", "e", "a", "t", "e", "d">> @@ 401 :> <<"U", "n", "a", "u", "t", "h", "o", "r", "i", "z", "e", "d">> @@
  404 :> <<"N", "o", "t", " ", "F", "o", "u", "n", "d">> @@ 429 :> <<"T", "o", "o", " ", "M", "a", "n", "y", " ", "R", "e", "q", "u", "e", "s", "t", "s">> @@
  500 :> <<"I", "n", "t", "e", "r", "n", "a", "l", " ", "S", "e", "r", "v", "e", "r", " ", "E", "r", "r", "o", "r">>

Responses ==
  [status : OkStatus, headers : RateHeaders, body : SuccessBodies]
  \cup [status : ErrorStatus, headers : RateHeaders, body : ErrorBodies]

\* The clock starts StartHours after the epoch and is followed for MaxHours
\* more; an hour in milliseconds.
StartHours == 2

MaxHours == 3

Hour == 3600 * 1000

StartClock == StartHours * Hour

(***************************************************************************)
(* State                                                                   *)
(***************************************************************************)
VARIABLES
  apiKey,         \* this.apiKey of the client instance
  rateLimitInfo,  \* this.rateLimitInfo: Null or the latest snapshot
  calls,          \* the asynchronous calls in progress, by call id
  received,       \* headers of the response the client received last, or Null
  fs,             \* the local files: [configDir, credentials]
  clock,          \* Date.now(): milliseconds since the epoch
  stateFile,      \* the heartbeat state file: [dir, content]
  ret,            \* the synchronous call of index.js that is returning, or Null
  hb,             \* the script that runs (heartbeat, engagement, registration) and where it is
  lastUpdate      \* history: the epoch second of the latest updateMoltbookCheckTime()

vars == <<apiKey, rateLimitInfo, calls, received, fs, clock, stateFile, ret, hb, lastUpdate>>

\* The callers of the sequential program: each awaits its call before it
\* issues the next one, so it has at most one call in progress.
Callers == {1}

(***************************************************************************)
(* lib/client.js                                                           *)
(***************************************************************************)
\* The base url of a client constructed without a baseUrl option.
BASE_URL == <<"h", "t", "t", "p", "s", ":", "/", "/", "w", "w", "w", ".", "m", "o", "l", "t", "b", "o", "o", "k", ".", "c", "o", "m", "/", "a", "p", "i", "/", "v", "1">>

\* JSON.stringify(data): the JSON document of data; properties whose value is
\* undefined are left out.
JSONstringify(data) ==
  [t |-> "json",
   doc |-> IF data.t = "object"
           THEN Obj([k \in {x \in DOMAIN data.o : data.o[x] # Undefined} |-> data.o[k]])
           ELSE data]

\* request, were the Authorization header attached whether or not a key is set.
requestAlwaysAuthorization(key, method, path, data, options) ==
  [method |-> method,
   url |-> BASE_URL \o path,
   headers |-> "Authorization" :> (<<"B", "e", "a", "r", "e", "r", " ">> \o toString(key))
               @@ "Content-Type" :> <<"a", "p", "p", "l", "i", "c", "a", "t", "i", "o", "n", "/", "j", "s", "o", "n">>,
   body |-> IF Truthy(IF data = Undefined THEN Null ELSE data)
               /\ method \in {"POST", "PATCH"}
            THEN JSONstringify(data)
            ELSE Undefined]

\* request, were the body serialized for every POST and PATCH, data or not.
requestAlwaysBody(key, method, path, data, options) ==
  [method |-> method,
   url |-> BASE_URL \o path,
   headers |-> (IF Truthy(key)
                THEN "Authorization" :> (<<"B", "e", "a", "r", "e", "r", " ">> \o toString(key))
                ELSE <<>>)
               @@ "Content-Type" :> <<"a", "p", "p", "l", "i", "c", "a", "t", "i", "o", "n", "/", "j", "s", "o", "n">>,
   body |-> IF method \in {"POST", "PATCH"}
            THEN JSONstringify(IF data = Undefined THEN Null ELSE data)
            ELSE Undefined]

\* The url and config request() hands to fetch.  options.headers is spread
\* last and so overrides; config.body is set only for truthy data on POST
\* and PATCH.
request(key, method, path, data, options) ==
  LET given == IF data = Undefined THEN Null ELSE data
      extra == Get(options, "headers")
      headers ==
        (IF extra.t = "object" THEN extra.o ELSE <<>>)
        @@ (IF Truthy(key)
            THEN "Authorization" :> (<<"B", "e", "a", "r", "e", "r", " ">> \o toString(key))
            ELSE <<>>)
        @@ "Content-Type" :> <<"a", "p", "p", "l", "i", "c", "a", "t", "i", "o", "n", "/", "j", "s", "o", "n">>
  IN [method |-> method,
      url |-> BASE_URL \o path,
      headers |-> headers,
      body |-> IF Truthy(given) /\ method \in {"POST", "PATCH"}
               THEN JSONstringify(given)
               ELSE Undefined]

\* response.ok
Ok(status) == status >= 200 /\ status <= 299

\* response.headers.get(name)
HeadersGet(headers, name) ==
  IF name \in DOMAIN headers THEN Str(headers[name]) ELSE Null

\* new Date(n * 1000)
NewDate(seconds) ==
  [t |-> "Date",
   time |-> IF seconds.t = "NaN" THEN NaN ELSE Num(seconds.n * 1000)]

\* The snapshot request() stores for a response.
Snapshot(headers) ==
  LET field(name) == parseInt(Or(HeadersGet(headers, name), Str(<<"0">>)).s)
  IN [limit |-> field("x-ratelimit-limit"),
      remaining |-> field("x-ratelimit-remaining"),
      reset |-> field("x-ratelimit-reset"),
      resetAt |-> NewDate(field("x-ratelimit-reset"))]

\* getRateLimitInfo()
getRateLimitInfo == rateLimitInfo

\* isRateLimited(): this.rateLimitInfo && this.rateLimitInfo.remaining === 0
isRateLimited ==
  IF rateLimitInfo = Null THEN Null ELSE Bool(rateLimitInfo.remaining = Num(0))

\* getRateLimitReset()
getRateLimitReset == IF rateLimitInfo = Null THEN Null ELSE rateLimitInfo.resetAt

\* A thrown Error object: its constructor name and its own properties.
Error(name, props) == [t |-> "error", name |-> name, o |-> props]

Returned(value) == [kind |-> "returned", value |-> value]

Threw(error) == [kind |-> "threw", error |-> error]

TypeError == Threw(Error("TypeError", <<>>))

SyntaxError == Threw(Error("SyntaxError", <<>>))

\* Property read on a thrown error or an object.
Prop(v, key) ==
  IF v.t \in {"object", "error"} /\ key \in DOMAIN v.o THEN v.o[key] ELSE Undefined

\* requestOutcome, were the status of the response not looked at.
requestOutcomeIgnoringStatus(response) ==
  IF response.body = Unparseable THEN SyntaxError ELSE Returned(response.body)

\* The part of request() after the response body has been read: the throw
\* for a response that is not ok, the parsed body otherwise.
requestOutcome(response) ==
  IF ~Ok(response.status)
  THEN LET error == IF response.body = Unparseable
                    THEN Obj("message" :> Str(StatusText[response.status]))
                    ELSE response.body
       IN IF Nullish(error) THEN TypeError
          ELSE Threw(Error("Error",
                 "message" :> Or(Get(error, "message"),
                                 Str(<<"H", "T", "T", "P", " ">> \o NatToString(response.status)))
                 @@ "statusCode" :> Num(response.status)
                 @@ "response" :> error))
  ELSE IF response.body = Unparseable THEN SyntaxError
       ELSE Returned(response.body)

\* result.key of the methods that unwrap an envelope.
Unwrap(result, key) ==
  IF Nullish(result) THEN TypeError ELSE Returned(Get(result, key))

\* Probe, were the default of an empty array missing.
RECURSIVE ProbeWithoutDefault(_, _)
ProbeWithoutDefault(result, keys) ==
  IF keys = <<>> THEN Undefined
  ELSE Or(Get(result, Head(keys)), ProbeWithoutDefault(result, Tail(keys)))

\* result.data || result.posts || []
\* as an ordered probe of keys.
RECURSIVE Probe(_, _)
Probe(result, keys) ==
  IF keys = <<>> THEN Arr(<<>>)
  ELSE Or(Get(result, Head(keys)), Probe(result, Tail(keys)))

ListKeys ==
  "listPosts" :> <<"data", "posts">> @@ "getFeed" :> <<"data", "posts">> @@
  "listSubmolts" :> <<"data", "submolts">> @@
  "getSubmoltFeed" :> <<"data", "posts">> @@ "listComments" :> <<"comments">>

EnvelopeKey ==
  "me" :> "agent" @@ "updateProfile" :> "agent" @@ "createPost" :> "post" @@
  "getPost" :> "post" @@ "createComment" :> "comment" @@
  "getComment" :> "comment" @@ "getSubmolt" :> "submolt" @@
  "createSubmolt" :> "submolt"

\* What a client method does with the outcome of its request.
methodOutcome(op, out) ==
  IF out.kind = "threw" THEN out
  ELSE IF op \in DOMAIN EnvelopeKey THEN Unwrap(out.value, EnvelopeKey[op])
  ELSE IF op \in DOMAIN ListKeys
       THEN IF Nullish(out.value) THEN TypeError
            ELSE Returned(Probe(out.value, ListKeys[op]))
  ELSE out

(***************************************************************************)
(* The client methods.  Each builds its request and hands it to fetch; the *)
(* call then waits for the response.                                       *)
(***************************************************************************)
NoOptions == EmptyObj

\* The arguments of a method that takes none.
NoArgs == [none |-> Undefined]

\* fetch(url, config) as issued by a method of the client whose key is key.
\* owner is "client" for a call on the client instance and "register" for
\* the call of index.js register(), which has a client of its own; local is
\* what the caller keeps for its continuation; args are the arguments of the
\* invocation.
Fetch(id, op, args, owner, local, req) ==
  /\ id \notin DOMAIN calls
  /\ calls' = calls @@ (id :> [op |-> op, owner |-> owner, local |-> local,
                               stage |-> "sent", args |-> args, request |-> req])
  /\ UNCHANGED <<apiKey, rateLimitInfo, received, fs, clock, stateFile, ret, hb, lastUpdate>>

Invoke(id, op, args, method, path, data) ==
  Fetch(id, op, args, "client", Undefined,
        request(apiKey, method, path, data, NoOptions))

\* params.append(name, value) when the option is truthy, in the order given.
RECURSIVE Params(_, _)
Params(options, names) ==
  IF names = <<>> THEN <<>>
  ELSE (IF Truthy(Get(options, Head(names)[1]))
        THEN <<(<<Head(names)[2], toString(Get(options, Head(names)[1]))>>)>>
        ELSE <<>>)
       \o Params(options, Tail(names))

Query(options, names) == URLSearchParamsToString(Params(options, names))

register(id, data) == Invoke(id, "register", [data |-> data], "POST", <<"/", "a", "g", "e", "n", "t", "s", "/", "r", "e", "g", "i", "s", "t", "e", "r">>, data)

me(id) == Invoke(id, "me", NoArgs, "GET", <<"/", "a", "g", "e", "n", "t", "s", "/", "m", "e">>, Undefined)

updateProfile(id, data) == Invoke(id, "updateProfile", [data |-> data], "PATCH", <<"/", "a", "g", "e", "n", "t", "s", "/", "m", "e">>, data)

getAgent(id, name) ==
  Invoke(id, "getAgent", [name |-> name], "GET",
         <<"/", "a", "g", "e", "n", "t", "s", "/", "p", "r", "o", "f", "i", "l", "e", "?", "n", "a", "m", "e", "=">> \o encodeURIComponent(name), Undefined)

follow(id, name) ==
  Invoke(id, "follow", [name |-> name], "POST",
         <<"/", "a", "g", "e", "n", "t", "s", "/">> \o encodeURIComponent(name) \o <<"/", "f", "o", "l", "l", "o", "w">>, Undefined)

unfollow(id, name) ==
  Invoke(id, "unfollow", [name |-> name], "DELETE",
         <<"/", "a", "g", "e", "n", "t", "s", "/">> \o encodeURIComponent(name) \o <<"/", "f", "o", "l", "l", "o", "w">>, Undefined)

createPost(id, data) == Invoke(id, "createPost", [data |-> data], "POST", <<"/", "p", "o", "s", "t", "s">>, data)

getPost(id, post) == Invoke(id, "getPost", [id |-> post], "GET", <<"/", "p", "o", "s", "t", "s", "/">> \o post, Undefined)

listPosts(id, options) ==
  Invoke(id, "listPosts", [options |-> options], "GET",
         <<"/", "p", "o", "s", "t", "s", "?">> \o Query(options,
           <<(<<"sort", <<"s", "o", "r", "t">>>>), <<"limit", <<"l", "i", "m", "i", "t">>>>, <<"offset", <<"o", "f", "f", "s", "e", "t">>>>,
             <<"submolt", <<"s", "u", "b", "m", "o", "l", "t">>>>, <<"timeRange", <<"t">>>>>>),
         Undefined)

deletePost(id, post) == Invoke(id, "deletePost", [id |-> post], "DELETE", <<"/", "p", "o", "s", "t", "s", "/">> \o post, Undefined)

upvotePost(id, post) ==
  Invoke(id, "upvotePost", [id |-> post], "POST", <<"/", "p", "o", "s", "t", "s", "/">> \o post \o <<"/", "u", "p", "v", "o", "t", "e">>, Undefined)

downvotePost(id, post) ==
  Invoke(id, "downvotePost", [id |-> post], "POST", <<"/", "p", "o", "s", "t", "s", "/">> \o post \o <<"/", "d", "o", "w", "n", "v", "o", "t", "e">>, Undefined)

\* const { postId, ...body } = data
createComment(id, data) ==
  Invoke(id, "createComment", [data |-> data], "POST",
         <<"/", "p", "o", "s", "t", "s", "/">> \o toString(Get(data, "postId")) \o <<"/", "c", "o", "m", "m", "e", "n", "t", "s">>,
         Obj([k \in DOMAIN data.o \ {"postId"} |-> data.o[k]]))

getComment(id, comment) ==
  Invoke(id, "getComment", [id |-> comment], "GET", <<"/", "c", "o", "m", "m", "e", "n", "t", "s", "/">> \o comment, Undefined)

listComments(id, post, options) ==
  Invoke(id, "listComments", [id |-> post, options |-> options], "GET",
         <<"/", "p", "o", "s", "t", "s", "/">> \o post \o <<"/", "c", "o", "m", "m", "e", "n", "t", "s", "?">>
           \o Query(options, <<(<<"sort", <<"s", "o", "r", "t">>>>), <<"limit", <<"l", "i", "m", "i", "t">>>>>>),
         Undefined)

deleteComment(id, comment) ==
  Invoke(id, "deleteComment", [id |-> comment], "DELETE", <<"/", "c", "o", "m", "m", "e", "n", "t", "s", "/">> \o comment, Undefined)

upvoteComment(id, comment) ==
  Invoke(id, "upvoteComment", [id |-> comment], "POST", <<"/", "c", "o", "m", "m", "e", "n", "t", "s", "/">> \o comment \o <<"/", "u", "p", "v", "o", "t", "e">>, Undefined)

downvoteComment(id, comment) ==
  Invoke(id, "downvoteComment", [id |-> comment], "POST", <<"/", "c", "o", "m", "m", "e", "n", "t", "s", "/">> \o comment \o <<"/", "d", "o", "w", "n", "v", "o", "t", "e">>,
         Undefined)

getFeed(id, options) ==
  Invoke(id, "getFeed", [options |-> options], "GET",
         <<"/", "f", "e", "e", "d", "?">> \o Query(options,
           <<(<<"sort", <<"s", "o", "r", "t">>>>), <<"limit", <<"l", "i", "m", "i", "t">>>>, <<"offset", <<"o", "f", "f", "s", "e", "t">>>>>>),
         Undefined)

listSubmolts(id, options) ==
  Invoke(id, "listSubmolts", [options |-> options], "GET",
         <<"/", "s", "u", "b", "m", "o", "l", "t", "s", "?">>
           \o Query(options, <<(<<"sort", <<"s", "o", "r", "t">>>>), <<"limit", <<"l", "i", "m", "i", "t">>>>>>),
         Undefined)

getSubmolt(id, name) ==
  Invoke(id, "getSubmolt", [name |-> name], "GET", <<"/", "s", "u", "b", "m", "o", "l", "t", "s", "/">> \o encodeURIComponent(name), Undefined)

createSubmolt(id, data) ==
  Invoke(id, "createSubmolt", [data |-> data], "POST", <<"/", "s", "u", "b", "m", "o", "l", "t", "s">>,
         Obj("name" :> Get(data, "name") @@ "display_name" :> Get(data, "displayName")
             @@ "description" :> Get(data, "description")))

subscribe(id, name) ==
  Invoke(id, "subscribe", [name |-> name], "POST",
         <<"/", "s", "u", "b", "m", "o", "l", "t", "s", "/">> \o encodeURIComponent(name) \o <<"/", "s", "u", "b", "s", "c", "r", "i", "b", "e">>, Undefined)

unsubscribe(id, name) ==
  Invoke(id, "unsubscribe", [name |-> name], "DELETE",
         <<"/", "s", "u", "b", "m", "o", "l", "t", "s", "/">> \o encodeURIComponent(name) \o <<"/", "s", "u", "b", "s", "c", "r", "i", "b", "e">>, Undefined)

getSubmoltFeed(id, name, options) ==
  Invoke(id, "getSubmoltFeed", [name |-> name, options |-> options], "GET",
         <<"/", "s", "u", "b", "m", "o", "l", "t", "s", "/">> \o encodeURIComponent(name) \o <<"/", "f", "e", "e", "d", "?">>
           \o Query(options, <<(<<"sort", <<"s", "o", "r", "t">>>>), <<"limit", <<"l", "i", "m", "i", "t">>>>>>),
         Undefined)

\* new URLSearchParams({ q: query, ...(options.limit && { limit }) })
search(id, query, options) ==
  Invoke(id, "search", [query |-> query, options |-> options], "GET",
         <<"/", "s", "e", "a", "r", "c", "h", "?">>
           \o URLSearchParamsToString(
                <<(<<<<"q">>, query>>)>> \o Params(options, <<(<<"limit", <<"l", "i", "m", "i", "t">>>>)>>)),
         Undefined)

(***************************************************************************)
(* index.js                                                                *)
(***************************************************************************)
\* register(data): a client constructed without options, so without a key,
\* sends the registration.
indexRegister(id, data) ==
  Fetch(id, "register", [data |-> data], "register", data,
        request(Undefined, "POST", <<"/", "a", "g", "e", "n", "t", "s", "/", "r", "e", "g", "i", "s", "t", "e", "r">>, data, NoOptions))

\* register() after the registration has returned: the read of
\* result.agent.api_key throws when result.agent is missing.
registerOutcome(out) ==
  IF out.kind = "threw" THEN out
  ELSE IF Nullish(out.value) \/ Nullish(Get(out.value, "agent")) THEN TypeError
  ELSE out

\* The credentials register() saves (the registered timestamp, which no
\* property reads, is left out).
registerCredentials(data, result) ==
  Obj("apiKey" :> Get(Get(result, "agent"), "api_key")
      @@ "handle" :> Get(data, "name")
      @@ "profileUrl" :> Str(<<"h", "t", "t", "p", "s", ":", "/", "/", "w", "w", "w", ".", "m", "o", "l", "t", "b", "o", "o", "k", ".", "c", "o", "m", "/", "u", "/">> \o toString(Get(data, "name")))
      @@ "verificationCode" :> Get(Get(result, "agent"), "verification_code")
      @@ "claimUrl" :> Get(Get(result, "agent"), "claim_url")
      @@ "twitterVerified" :> Bool(FALSE))

\* saveCredentials, were a file that exists left as it is.
saveCredentialsIfMissing(files, creds) ==
  IF files.credentials # Null THEN files
  ELSE [files EXCEPT !.configDir = TRUE, !.credentials = JSONstringify(creds)]

\* saveCredentials(creds): the directory is created when missing, then the
\* file is written with the JSON text of creds.
saveCredentials(files, creds) ==
  [files EXCEPT !.configDir = TRUE, !.credentials = JSONstringify(creds)]


(***************************************************************************)
(* getRelevantPosts(client, options) of index.js                           *)
(***************************************************************************)
\* A destructuring default: it applies when the property is undefined.
Default(options, key, value) ==
  IF Get(options, key) = Undefined THEN value ELSE Get(options, key)

\* `${v}` of a template literal.
TemplateString(v) ==
  CASE v.t = "undefined" -> <<"u", "n", "d", "e", "f", "i", "n", "e", "d">>
    [] v.t = "null" -> <<"n", "u", "l", "l">>
    [] OTHER -> toString(v)

\* String.prototype.toLowerCase
toLowerCase(s) ==
  LET UpperCase == <<"A", "B", "C", "D", "E", "F", "G", "H", "I", "J", "K", "L", "M", "N", "O", "P", "Q", "R", "S", "T", "U", "V", "W", "X", "Y", "Z">>
      LowerCase == <<"a", "b", "c", "d", "e", "f", "g", "h", "i", "j", "k", "l", "m", "n", "o", "p", "q", "r", "s", "t", "u", "v", "w", "x", "y", "z">>
  IN [i \in DOMAIN s |->
        IF \E j \in DOMAIN UpperCase : UpperCase[j] = s[i]
        THEN LowerCase[CHOOSE j \in DOMAIN UpperCase : UpperCase[j] = s[i]]
        ELSE s[i]]

\* String.prototype.includes
includes(text, part) ==
  \E i \in 0..(Len(text) - Len(part)) : SubSeq(text, i + 1, i + Len(part)) = part

\* a < b on numbers, null (0) and undefined (NaN, never less).
LessThan(a, b) ==
  LET n(v) == IF v.t = "null" THEN 0 ELSE v.n
  IN a.t \in {"number", "null"} /\ b.t \in {"number", "null"} /\ n(a) < n(b)

\* The text the keywords are looked up in.
PostText(post) ==
  toLowerCase(TemplateString(Get(post, "title")) \o <<" ">>
              \o TemplateString(Get(post, "content")))

\* kws.some(kw => text.includes(kw.toLowerCase()))
SomeKeyword(post, kws) ==
  \E i \in DOMAIN kws.a : includes(PostText(post), toLowerCase(kws.a[i].s))

\* The callback of feed.filter.
Relevant(post, options) ==
  /\ ~LessThan(Get(post, "score"), Default(options, "minScore", Num(3)))
  /\ ~LessThan(Default(options, "maxComments", Num(50)), Get(post, "commentCount"))
  /\ LET kws == Default(options, "keywords", Arr(<<>>))
     IN kws.a # <<>> => SomeKeyword(post, kws)
  /\ LET kws == Default(options, "excludeKeywords", Arr(<<>>))
     IN kws.a # <<>> => ~SomeKeyword(post, kws)

\* return feed.filter(...), on what client.feed.get returned or threw.
filterOutcome(options, out) ==
  IF out.kind = "threw" THEN out
  ELSE IF out.value.t # "array" THEN TypeError
  ELSE Returned(Arr(SelectSeq(out.value.a, LAMBDA post : Relevant(post, options))))

\* getRelevantPosts, were the posts listed with client.posts.list.
getRelevantPostsFromPosts(id, options) ==
  Fetch(id, "listPosts", [options |-> options], "client",
        [filter |-> options, before |-> rateLimitInfo],
        request(apiKey, "GET", <<"/", "p", "o", "s", "t", "s", "?">>, Undefined, NoOptions))

\* getRelevantPosts up to its await: client.feed.get({ sort, limit }).  It
\* keeps its options for the filter; before is the snapshot at the call.
getRelevantPosts(id, options) ==
  Fetch(id, "getFeed", [options |-> options], "client",
        [filter |-> options, before |-> rateLimitInfo],
        request(apiKey, "GET",
                <<"/", "f", "e", "e", "d", "?">>
                  \o Query(Obj("sort" :> Default(options, "sort", Str(<<"h", "o", "t">>))
                               @@ "limit" :> Default(options, "limit", Num(20))),
                           <<(<<"sort", <<"s", "o", "r", "t">>>>), <<"limit", <<"l", "i", "m", "i", "t">>>>,
                             <<"offset", <<"o", "f", "f", "s", "e", "t">>>>>>),
                Undefined, NoOptions))
(***************************************************************************)
(* The network and the continuations                                       *)
(***************************************************************************)
\* Receive, were the snapshot stored only for a response that is ok.
ReceiveStoresOnlyIfOk(id, response) ==
  /\ id \in DOMAIN calls
  /\ calls[id].stage = "sent"
  /\ calls' = [calls EXCEPT ![id] =
                 [op |-> calls[id].op, owner |-> calls[id].owner,
                  local |-> calls[id].local, stage |-> "received",
                  response |-> response]]
  /\ IF calls[id].owner = "client"
     THEN /\ rateLimitInfo' = IF Ok(response.status)
                              THEN Snapshot(response.headers)
                              ELSE rateLimitInfo
          /\ received' = [headers |-> response.headers]
     ELSE UNCHANGED <<rateLimitInfo, received>>
  /\ UNCHANGED <<apiKey, fs, clock, stateFile, ret, hb, lastUpdate>>

\* Receive, were the snapshot of a request issued later never replaced by
\* the response of a request issued earlier.
ReceiveKeepsLatestIssued(id, response) ==
  /\ id \in DOMAIN calls
  /\ calls[id].stage = "sent"
  /\ calls' = [calls EXCEPT ![id] =
                 [op |-> calls[id].op, owner |-> calls[id].owner,
                  local |-> calls[id].local, stage |-> "received",
                  response |-> response]]
  /\ IF calls[id].owner = "client"
     THEN /\ rateLimitInfo' =
               IF \E later \in DOMAIN calls :
                    /\ later > id
                    /\ calls[later].stage # "sent"
                    /\ calls[later].response # Null
               THEN rateLimitInfo
               ELSE Snapshot(response.headers)
          /\ received' = [headers |-> response.headers]
     ELSE UNCHANGED <<rateLimitInfo, received>>
  /\ UNCHANGED <<apiKey, fs, clock, stateFile, ret, hb, lastUpdate>>

\* fetch resolves: the response head has arrived.  request() stores the
\* snapshot on its client instance and starts to read the body.
Receive(id, response) ==
  /\ id \in DOMAIN calls
  /\ calls[id].stage = "sent"
  /\ calls' = [calls EXCEPT ![id] =
                 [op |-> calls[id].op, owner |-> calls[id].owner,
                  local |-> calls[id].local, stage |-> "received",
                  response |-> response]]
  /\ IF calls[id].owner = "client"
     THEN /\ rateLimitInfo' = Snapshot(response.headers)
          /\ received' = [headers |-> response.headers]
     ELSE UNCHANGED <<rateLimitInfo, received>>
  /\ UNCHANGED <<apiKey, fs, clock, stateFile, ret, hb, lastUpdate>>

\* FetchRejects, were the snapshot reset when no response arrives.
FetchRejectsClearsSnapshot(id) ==
  /\ id \in DOMAIN calls
  /\ calls[id].stage = "sent"
  /\ calls' = [calls EXCEPT ![id] =
                 [op |-> calls[id].op, owner |-> calls[id].owner,
                  local |-> calls[id].local, stage |-> "settled",
                  response |-> Null,
                  outcome |-> Threw(Error("TypeError",
                                          "message" :> Str(<<"f", "e", "t", "c", "h", " ", "f", "a", "i", "l", "e", "d">>)))]]
  /\ rateLimitInfo' = Null
  /\ UNCHANGED <<apiKey, received, fs, clock, stateFile, ret, hb, lastUpdate>>

\* fetch rejects: no response arrives and the rejection reaches the caller.
FetchRejects(id) ==
  /\ id \in DOMAIN calls
  /\ calls[id].stage = "sent"
  /\ calls' = [calls EXCEPT ![id] =
                 [op |-> calls[id].op, owner |-> calls[id].owner,
                  local |-> calls[id].local, stage |-> "settled",
                  response |-> Null,
                  outcome |-> Threw(Error("TypeError",
                                          "message" :> Str(<<"f", "e", "t", "c", "h", " ", "f", "a", "i", "l", "e", "d">>)))]]
  /\ UNCHANGED <<apiKey, rateLimitInfo, received, fs, clock, stateFile, ret, hb, lastUpdate>>

\* The body has been read: request() returns or throws, and the method (and
\* register() of index.js) runs the rest of its body.
Complete(id) ==
  /\ id \in DOMAIN calls
  /\ calls[id].stage = "received"
  /\ LET c == calls[id]
         out == methodOutcome(c.op, requestOutcome(c.response))
         final == IF c.owner = "register" THEN registerOutcome(out)
                  ELSE IF c.local # Undefined THEN filterOutcome(c.local.filter, out)
                  ELSE out
     IN /\ calls' = [calls EXCEPT ![id] =
                       [op |-> c.op, owner |-> c.owner, local |-> c.local,
                        stage |-> "settled", response |-> c.response,
                        outcome |-> final]]
        /\ fs' = IF c.owner = "register" /\ final.kind = "returned"
                 THEN saveCredentials(fs, registerCredentials(c.local, final.value))
                 ELSE fs
  /\ UNCHANGED <<apiKey, rateLimitInfo, received, clock, stateFile, ret, hb, lastUpdate>>

\* The caller's await resumes with the outcome.
Settle(id) ==
  /\ id \in DOMAIN calls
  /\ calls[id].stage = "settled"
  /\ calls' = [i \in DOMAIN calls \ {id} |-> calls[i]]
  /\ UNCHANGED <<apiKey, rateLimitInfo, received, fs, clock, stateFile, ret, hb, lastUpdate>>

(***************************************************************************)
(* Specification                                                           *)
(***************************************************************************)
\* constructor: the key of the options, no snapshot yet.
Init ==
  /\ apiKey \in ApiKeys
  /\ rateLimitInfo = Null
  /\ calls = <<>>
  /\ received = Null
  /\ fs = [configDir |-> FALSE, credentials |-> Null]
  /\ clock = StartClock
  /\ stateFile = [dir |-> FALSE, content |-> Null]
  /\ ret = Null
  /\ hb = [pc |-> "idle"]
  /\ lastUpdate = Null

Next ==
  \/ \E id \in Callers, data \in DataSets : register(id, data)
  \/ \E id \in Callers : me(id)
  \/ \E id \in Callers, data \in DataSets : updateProfile(id, data)
  \/ \E id \in Callers, name \in Idents : getAgent(id, name)
  \/ \E id \in Callers, name \in Idents : follow(id, name)
  \/ \E id \in Callers, name \in Idents : unfollow(id, name)
  \/ \E id \in Callers, data \in DataSets : createPost(id, data)
  \/ \E id \in Callers, post \in Idents : getPost(id, post)
  \/ \E id \in Callers, options \in OptionSets : listPosts(id, options)
  \/ \E id \in Callers, post \in Idents : deletePost(id, post)
  \/ \E id \in Callers, post \in Idents : upvotePost(id, post)
  \/ \E id \in Callers, post \in Idents : downvotePost(id, post)
  \/ \E id \in Callers, data \in CommentData : createComment(id, data)
  \/ \E id \in Callers, comment \in Idents : getComment(id, comment)
  \/ \E id \in Callers, post \in Idents, options \in OptionSets :
       listComments(id, post, options)
  \/ \E id \in Callers, comment \in Idents : deleteComment(id, comment)
  \/ \E id \in Callers, comment \in Idents : upvoteComment(id, comment)
  \/ \E id \in Callers, comment \in Idents : downvoteComment(id, comment)
  \/ \E id \in Callers, options \in OptionSets : getFeed(id, options)
  \/ \E id \in Callers, options \in OptionSets : listSubmolts(id, options)
  \/ \E id \in Callers, name \in Idents : getSubmolt(id, name)
  \/ \E id \in Callers, data \in SubmoltData : createSubmolt(id, data)
  \/ \E id \in Callers, name \in Idents : subscribe(id, name)
  \/ \E id \in Callers, name \in Idents : unsubscribe(id, name)
  \/ \E id \in Callers, name \in Idents, options \in OptionSets :
       getSubmoltFeed(id, name, options)
  \/ \E id \in Callers, query \in Idents, options \in OptionSets :
       search(id, query, options)
  \/ \E id \in Callers, data \in RegisterData : indexRegister(id, data)
  \/ \E id \in Callers, response \in Responses : Receive(id, response)
  \/ \E id \in Callers : FetchRejects(id)
  \/ \E id \in Callers : Complete(id)
  \/ \E id \in Callers : Settle(id)

Spec == Init /\ [][Next]_vars

(***************************************************************************)
(* Properties                                                              *)
(***************************************************************************)
Sent == {id \in DOMAIN calls : calls[id].stage = "sent"}

\* Calls whose response has arrived.
Answered == {id \in DOMAIN calls : calls[id].stage # "sent" /\ calls[id].response # Null}

Settled == {id \in DOMAIN calls : calls[id].stage = "settled" /\ calls[id].response # Null}

\* C1: once a call on the client has received a response, of whatever status,
\* the snapshot is the four fields derived from the headers of that response,
\* until the call has returned or thrown: it holds the fields of the response
\* received last and nothing of an earlier one.
RateLimitSnapshotReplaced ==
  /\ \A id \in Answered :
       calls[id].owner = "client" =>
         rateLimitInfo = Snapshot(calls[id].response.headers)
  /\ received = Null => rateLimitInfo = Null
  /\ received # Null => rateLimitInfo = Snapshot(received.headers)

\* A response that is not ok and has no rate-limit header has been received:
\* the snapshot is all zero.
RateLimitSnapshotReplacedWitness ==
  \E id \in Answered :
    /\ calls[id].owner = "client"
    /\ ~Ok(calls[id].response.status)
    /\ calls[id].response.headers = <<>>
    /\ rateLimitInfo.limit = Num(0)
    /\ rateLimitInfo.resetAt = NewDate(Num(0))

\* The API key of the client instance a call was issued on.
KeyOf(id) == IF calls[id].owner = "client" THEN apiKey ELSE Undefined

\* C2: a request carries Authorization: Bearer <apiKey> exactly when its
\* client has a (non-empty) API key; the request of register() of index.js,
\* whose client has none, carries no Authorization header.
AuthorizationIffApiKey ==
  \A id \in Sent :
    LET headers == calls[id].request.headers
        key == KeyOf(id)
        configured == key.t = "string" /\ key.s # <<>>
    IN /\ ("Authorization" \in DOMAIN headers) <=> configured
       /\ configured => headers["Authorization"] = <<"B", "e", "a", "r", "e", "r", " ">> \o key.s

\* While the client instance has a key, register() of index.js has sent its
\* request without the header.
AuthorizationIffApiKeyWitness ==
  \E id \in Sent :
    /\ calls[id].owner = "register"
    /\ Truthy(apiKey)
    /\ "Authorization" \notin DOMAIN calls[id].request.headers

\* C3: for a response that is not ok the call throws an error whose
\* statusCode is the status and whose response is the parsed body, or
\* {message: statusText} when the body does not parse.
ErrorCarriesStatusAndPayload ==
  \A id \in Settled :
    LET c == calls[id] IN
    ~Ok(c.response.status) =>
      /\ c.outcome.kind = "threw"
      /\ Prop(c.outcome.error, "statusCode") = Num(c.response.status)
      /\ Prop(c.outcome.error, "response") =
           IF c.response.body = Unparseable
           THEN Obj("message" :> Str(StatusText[c.response.status]))
           ELSE c.response.body

\* The error kinds of the documented error handling.
ErrorKind(status) ==
  CASE status = 401 -> "AuthenticationError"
    [] status = 404 -> "NotFoundError"
    [] status = 429 -> "RateLimitError"
    [] OTHER -> "MoltbookError"

\* C4: the error raised for a 401 is of the authentication kind, for a 404 of
\* the not-found kind, for a 429 of the rate-limit kind and for another status
\* of the generic API kind, so that the kinds tell the statuses apart.
ErrorKindsDistinct ==
  \A id \in Settled :
    LET c == calls[id] IN
    (/\ c.outcome.kind = "threw"
     /\ Prop(c.outcome.error, "statusCode") = Num(c.response.status)) =>
      c.outcome.error.name = ErrorKind(c.response.status)

\* C5: the error raised for a 429 whose body gives retryAfter has that value
\* as its retryAfter property.
RetryAfterExposed ==
  \A id \in Settled :
    LET c == calls[id] IN
    (/\ c.response.status = 429
     /\ c.response.body.t = "object"
     /\ Get(c.response.body, "retryAfter") # Undefined) =>
      /\ c.outcome.kind = "threw"
      /\ Prop(c.outcome.error, "retryAfter") = Get(c.response.body, "retryAfter")

ListOps == {"listPosts", "getFeed", "listSubmolts", "getSubmoltFeed", "listComments"}

\* The key a list endpoint is named after.
EndpointKey(op) ==
  CASE op = "listSubmolts" -> "submolts"
    [] op = "listComments" -> "comments"
    [] OTHER -> "posts"

\* C6: a list method whose success body has a data array returns that array,
\* also when the endpoint's own key is present; the endpoint's own key is
\* returned only when data is absent.
DataWinsOnEveryListEndpoint ==
  \A id \in Settled :
    LET c == calls[id] IN
    (/\ c.op \in ListOps
     /\ Ok(c.response.status)
     /\ c.response.body.t = "object") =>
      /\ Get(c.response.body, "data").t = "array" =>
           c.outcome = Returned(Get(c.response.body, "data"))
      /\ (/\ EndpointKey(c.op) \in DOMAIN c.response.body.o
          /\ "data" \in DOMAIN c.response.body.o) =>
           c.outcome # Returned(Get(c.response.body, EndpointKey(c.op)))

FirstIndex(s, ch) ==
  IF \E i \in 1..Len(s) : s[i] = ch
  THEN CHOOSE i \in 1..Len(s) : s[i] = ch /\ \A j \in 1..(i - 1) : s[j] # ch
  ELSE 0

RECURSIVE Split(_, _)
Split(s, ch) ==
  LET i == FirstIndex(s, ch)
  IN IF i = 0 THEN <<s>>
     ELSE <<SubSeq(s, 1, i - 1)>> \o Split(SubSeq(s, i + 1, Len(s)), ch)

Escapes == PercentEscape @@ FormEscape

\* Percent-decoding; an escape that is malformed decodes to no string of the
\* model.
RECURSIVE PercentDecode(_)
PercentDecode(s) ==
  IF s = <<>> THEN <<>>
  ELSE IF Head(s) # "%" THEN <<Head(s)>> \o PercentDecode(Tail(s))
  ELSE IF Len(s) >= 3 /\ \E ch \in DOMAIN Escapes : Escapes[ch] = SubSeq(s, 1, 3)
       THEN <<CHOOSE ch \in DOMAIN Escapes : Escapes[ch] = SubSeq(s, 1, 3)>>
            \o PercentDecode(SubSeq(s, 4, Len(s)))
       ELSE <<"URIError">>

\* Form decoding of a query name or value: "+" is a space.
FormDecode(s) == PercentDecode([i \in 1..Len(s) |-> IF s[i] = "+" THEN " " ELSE s[i]])

\* The part of the url after the base url, before the query.
PathOf(url) ==
  LET rest == SubSeq(url, Len(BASE_URL) + 1, Len(url))
      q == FirstIndex(rest, "?")
  IN IF q = 0 THEN rest ELSE SubSeq(rest, 1, q - 1)

\* The query string of the url, without the "?".
QueryOf(url) ==
  LET q == FirstIndex(url, "?")
  IN IF q = 0 THEN <<>> ELSE SubSeq(url, q + 1, Len(url))

\* The decoded values the query gives for a name, in order.
RECURSIVE ValuesIn(_, _)
ValuesIn(pairs, name) ==
  IF pairs = <<>> THEN <<>>
  ELSE LET eq == FirstIndex(Head(pairs), "=")
           n == IF eq = 0 THEN Head(pairs) ELSE SubSeq(Head(pairs), 1, eq - 1)
           v == IF eq = 0 THEN <<>> ELSE SubSeq(Head(pairs), eq + 1, Len(Head(pairs)))
       IN (IF Head(pairs) # <<>> /\ FormDecode(n) = name THEN <<FormDecode(v)>> ELSE <<>>)
          \o ValuesIn(Tail(pairs), name)

QueryValues(url, name) == ValuesIn(Split(QueryOf(url), "&"), name)

\* Methods that put an identifier of the caller in a path segment, and the
\* identifier.
PathIdOps ==
  {"follow", "unfollow", "getSubmolt", "subscribe", "unsubscribe", "getSubmoltFeed",
   "getPost", "deletePost", "upvotePost", "downvotePost", "createComment",
   "listComments", "getComment", "deleteComment", "upvoteComment", "downvoteComment"}

Ident(c) ==
  IF c.op = "createComment" THEN toString(Get(c.args.data, "postId"))
  ELSE IF "name" \in DOMAIN c.args THEN c.args.name
  ELSE c.args.id

\* The number of "/"-separated pieces of the path of each such method, the
\* identifier being the third.
PathPieces(op) ==
  IF op \in {"getSubmolt", "getPost", "deletePost", "getComment", "deleteComment"}
  THEN 3 ELSE 4

\* C8: the url of a method that puts an identifier in the path holds it
\* percent-encoded: it is one path segment, and decodes to the identifier.
PathIdentifierEncoded ==
  \A id \in Sent :
    LET c == calls[id]
        pieces == Split(PathOf(c.request.url), "/")
    IN c.op \in PathIdOps =>
         /\ Len(pieces) = PathPieces(c.op)
         /\ PercentDecode(pieces[3]) = Ident(c)

\* The options each method with a query reads, with the query name of each.
QueryParams ==
  "listPosts" :> {<<"sort", <<"s", "o", "r", "t">>>>, <<"limit", <<"l", "i", "m", "i", "t">>>>, <<"offset", <<"o", "f", "f", "s", "e", "t">>>>,
                  <<"submolt", <<"s", "u", "b", "m", "o", "l", "t">>>>, <<"timeRange", <<"t">>>>}
  @@ "getFeed" :> {<<"sort", <<"s", "o", "r", "t">>>>, <<"limit", <<"l", "i", "m", "i", "t">>>>, <<"offset", <<"o", "f", "f", "s", "e", "t">>>>}
  @@ "listSubmolts" :> {<<"sort", <<"s", "o", "r", "t">>>>, <<"limit", <<"l", "i", "m", "i", "t">>>>}
  @@ "listComments" :> {<<"sort", <<"s", "o", "r", "t">>>>, <<"limit", <<"l", "i", "m", "i", "t">>>>}
  @@ "getSubmoltFeed" :> {<<"sort", <<"s", "o", "r", "t">>>>, <<"limit", <<"l", "i", "m", "i", "t">>>>}
  @@ "search" :> {<<"limit", <<"l", "i", "m", "i", "t">>>>}

\* C9: a query parameter of a list, feed or search method is in the url
\* exactly when the caller gave the option, and then with the caller's value,
\* limit 0 and offset 0 included.
QueryParamIffProvided ==
  \A id \in Sent :
    LET c == calls[id] IN
    c.op \in DOMAIN QueryParams =>
      \A p \in QueryParams[c.op] :
        LET v == Get(c.args.options, p[1])
        IN QueryValues(c.request.url, p[2]) =
             IF v = Undefined THEN <<>> ELSE <<toString(v)>>

\* C10 as claimed: every POST or PATCH request has a JSON body, no GET or
\* DELETE request has one.
BodyIffPostOrPatch ==
  \A id \in Sent :
    LET r == calls[id].request
    IN /\ r.method \in {"POST", "PATCH"} => (r.body # Undefined /\ r.body.t = "json")
       /\ r.method \in {"GET", "DELETE"} => r.body = Undefined

\* The payload a method passes to request(), when it passes one.
PayloadOps == {"register", "updateProfile", "createPost"}

AlwaysPayloadOps == {"createComment", "createSubmolt"}

\* C10 amended: no GET or DELETE request has a body; a POST or PATCH request
\* has a JSON body exactly when its method passes a payload to request():
\* comments.create and submolts.create always, register, update and
\* posts.create when the caller's data is an object, and follow, upvote,
\* downvote and subscribe never.
BodyIffPayload ==
  \A id \in Sent :
    LET c == calls[id]
        r == c.request
        payload == \/ c.op \in AlwaysPayloadOps
                   \/ c.op \in PayloadOps /\ c.args.data.t = "object"
    IN /\ (r.body # Undefined) <=> payload
       /\ r.body # Undefined => (r.method \in {"POST", "PATCH"} /\ r.body.t = "json")
       /\ c.op \in PayloadOps /\ payload => r.body = JSONstringify(c.args.data)

\* follow has sent a POST without a body.
BodyIffPayloadWitness ==
  \E id \in Sent :
    /\ calls[id].op = "follow"
    /\ calls[id].request.method = "POST"
    /\ calls[id].request.body = Undefined

(***************************************************************************)
(* The rate-limit accessors                                                *)
(***************************************************************************)
\* C11: isRateLimited() is true exactly when the response received last
\* reported x-ratelimit-remaining as 0, so neither before any response nor
\* after a response without that header; getRateLimitInfo() is null until
\* the first response and getRateLimitReset() is the resetAt of the latest
\* snapshot.
RateLimitedIffReportedZero ==
  /\ (isRateLimited = Bool(TRUE)) <=>
       (/\ received # Null
        /\ "x-ratelimit-remaining" \in DOMAIN received.headers
        /\ parseInt(received.headers["x-ratelimit-remaining"]) = Num(0))
  /\ (getRateLimitInfo = Null) <=> (received = Null)
  /\ getRateLimitReset =
       IF received = Null THEN Null ELSE Snapshot(received.headers).resetAt

(***************************************************************************)
(* The credentials file (index.js)                                         *)
(***************************************************************************)
\* No client instance has been constructed.
NoClient == [t |-> "absent"]

ClientInstance == [t |-> "MoltbookClient"]

\* JSON.parse of a file's text; a truncated text is no JSON document.
JSONparse(text) == IF text.t = "json" THEN Returned(text.doc) ELSE SyntaxError

CredentialsNotFound ==
  Error("Error",
        "message" :> Str(<<"M", "o", "l", "t", "b", "o", "o", "k", " ", "c", "r", "e", "d", "e", "n", "t", "i", "a", "l", "s", " ", "n", "o", "t", " ", "f", "o", "u", "n", "d", ".", " ", "R", "u", "n", " ", "r", "e", "g", "i", "s", "t", "r", "a", "t", "i", "o", "n", " ", "f", "i", "r", "s", "t", " ", "o", "r", " ", "c", "r", "e", "a", "t", "e", " ", "~", "/", ".", "c", "o", "n", "f", "i", "g", "/", "m", "o", "l", "t", "b", "o", "o", "k", "/", "c", "r", "e", "d", "e", "n", "t", "i", "a", "l", "s", ".", "j", "s", "o", "n">>))

Aliases ==
  "apiKey" :> "api_key" @@ "handle" :> "agent_name" @@ "profileUrl" :> "profile_url"
  @@ "verificationCode" :> "verification_code" @@ "createdAt" :> "created_at"

\* loadCredentials(): the five normalised properties first, then ...raw, so
\* that a property of raw replaces the normalised one of the same name.
loadCredentials(files) ==
  IF files.credentials = Null THEN Threw(CredentialsNotFound)
  ELSE LET parsed == JSONparse(files.credentials)
       IN IF parsed.kind = "threw" THEN parsed
          ELSE IF Nullish(parsed.value) THEN TypeError
          ELSE LET raw == parsed.value
               IN Returned(Obj((IF raw.t = "object" THEN raw.o ELSE <<>>)
                               @@ [k \in DOMAIN Aliases |->
                                     Or(Get(raw, k), Get(raw, Aliases[k]))]))

\* What the caller of a synchronous function sees when it returns: the
\* outcome, and the state the function started in.
Ret(op, args, stage, outcome) ==
  [op |-> op, args |-> args, stage |-> stage, outcome |-> outcome,
   before |-> [fs |-> fs, apiKey |-> apiKey, rateLimitInfo |-> rateLimitInfo,
               stateFile |-> stateFile]]

LoadCredentials ==
  /\ ret = Null
  /\ ret' = Ret("loadCredentials", NoArgs, "done", loadCredentials(fs))
  /\ UNCHANGED <<apiKey, rateLimitInfo, calls, received, fs, clock, stateFile, hb, lastUpdate>>

\* isRegistered()
IsRegistered ==
  /\ ret = Null
  /\ ret' = Ret("isRegistered", NoArgs, "done", Returned(Bool(fs.credentials # Null)))
  /\ UNCHANGED <<apiKey, rateLimitInfo, calls, received, fs, clock, stateFile, hb, lastUpdate>>

\* createClient(options): new MoltbookClient({apiKey: creds.apiKey, ...options})
createClient(options) ==
  /\ ret = Null
  /\ calls = <<>>
  /\ LET creds == loadCredentials(fs)
     IN IF creds.kind = "threw"
        THEN /\ ret' = Ret("createClient", options, "done", creds)
             /\ UNCHANGED <<apiKey, rateLimitInfo, received>>
        ELSE /\ apiKey' = IF "apiKey" \in DOMAIN options.o
                          THEN options.o["apiKey"]
                          ELSE Get(creds.value, "apiKey")
             /\ rateLimitInfo' = Null
             /\ received' = Null
             /\ ret' = Ret("createClient", options, "done", Returned(ClientInstance))
  /\ UNCHANGED <<calls, fs, clock, stateFile, hb, lastUpdate>>

\* saveCredentials(creds) up to the point where writeFileSync has opened the
\* file, which truncates it; the directory is made first when it is missing.
SaveCredentialsOpen(creds) ==
  /\ ret = Null
  /\ fs' = [fs EXCEPT !.configDir = TRUE, !.credentials = Unparseable]
  /\ ret' = Ret("saveCredentials", creds, "writing", Returned(Undefined))
  /\ UNCHANGED <<apiKey, rateLimitInfo, calls, received, clock, stateFile, hb, lastUpdate>>

\* writeFileSync has written the whole text and saveCredentials returns.
SaveCredentialsWrite ==
  /\ ret # Null
  /\ ret.stage = "writing"
  /\ ret.op = "saveCredentials"
  /\ fs' = saveCredentials(fs, ret.args)
  /\ ret' = [ret EXCEPT !.stage = "done"]
  /\ UNCHANGED <<apiKey, rateLimitInfo, calls, received, clock, stateFile, hb, lastUpdate>>

\* The caller goes on after the return.
Return ==
  /\ ret # Null
  /\ ret.stage = "done"
  /\ ret' = Null
  /\ UNCHANGED <<apiKey, rateLimitInfo, calls, received, fs, clock, stateFile, hb, lastUpdate>>

\* The process is killed inside a synchronous function; a new process starts
\* with the files as they are.
Crash ==
  /\ ret # Null
  /\ ret.stage = "writing"
  /\ ret' = Null
  /\ apiKey' = NoClient
  /\ rateLimitInfo' = Null
  /\ received' = Null
  /\ UNCHANGED <<calls, fs, clock, stateFile, hb, lastUpdate>>

\* Credential files as a user or register() may have written them.
RawCredentials ==
  {EmptyObj,
   Obj("api_key" :> Str(<<"x">>)),
   Obj("apiKey" :> Str(<<"s", "k", "1">>) @@ "handle" :> Str(<<"b", "o", "t">>)),
   Obj("apiKey" :> Str(<<>>) @@ "api_key" :> Str(<<"x">>)),
   Obj("apiKey" :> Null @@ "api_key" :> Str(<<"x">>)),
   Obj("apiKey" :> Str(<<"s", "k", "1">>) @@ "api_key" :> Str(<<"x">>)
       @@ "agent_name" :> Str(<<"b", "o", "t">>) @@ "profile_url" :> Str(<<"u">>)
       @@ "verification_code" :> Str(<<"v">>) @@ "created_at" :> Str(<<"c">>))}

SavedCredentials ==
  {Obj("apiKey" :> IssuedKey @@ "handle" :> Str(<<"b", "o", "t">>)),
   Obj("api_key" :> Str(<<"x">>))}

ClientOptions == {EmptyObj, Obj("apiKey" :> Str(<<"s", "k", "1">>))}

CredResponses == {r \in Responses : r.headers = <<>> /\ r.status \in {200, 401}}

\* A script calls a method of the client it has created.
CallMe(id) ==
  /\ apiKey # NoClient
  /\ ret = Null
  /\ me(id)

InitCred ==
  /\ apiKey = NoClient
  /\ rateLimitInfo = Null
  /\ calls = <<>>
  /\ received = Null
  /\ fs \in [configDir : BOOLEAN, credentials : {Null}]
            \cup {[configDir |-> TRUE, credentials |-> JSONstringify(c)] :
                    c \in RawCredentials}
  /\ clock = StartClock
  /\ stateFile = [dir |-> FALSE, content |-> Null]
  /\ ret = Null
  /\ hb = [pc |-> "idle"]
  /\ lastUpdate = Null

NextCred ==
  \/ LoadCredentials
  \/ IsRegistered
  \/ \E options \in ClientOptions : createClient(options)
  \/ \E creds \in SavedCredentials : SaveCredentialsOpen(creds)
  \/ SaveCredentialsWrite
  \/ Return
  \/ Crash
  \/ \E id \in Callers : CallMe(id)
  \/ \E id \in Callers, response \in CredResponses : Receive(id, response)
  \/ \E id \in Callers : FetchRejects(id)
  \/ \E id \in Callers : Complete(id)
  \/ \E id \in Callers : Settle(id)

SpecCred == InitCred /\ [][NextCred]_vars

Returning(op) == ret # Null /\ ret.stage = "done" /\ ret.op = op

\* C12: with the credentials file absent createClient() throws the
\* credentials-not-found error, constructs no client and sends no request,
\* and that error has no statusCode, whereas the error of every response
\* that is not ok has one.
MissingCredentialsDistinguishable ==
  /\ (Returning("createClient") /\ ret.before.fs.credentials = Null) =>
       /\ ret.outcome.kind = "threw"
       /\ ret.outcome.error.name = "Error"
       /\ "message" \in DOMAIN ret.outcome.error.o
       /\ "statusCode" \notin DOMAIN ret.outcome.error.o
       /\ apiKey = ret.before.apiKey
       /\ rateLimitInfo = ret.before.rateLimitInfo
       /\ calls = <<>>
  /\ \A id \in Settled :
       ~Ok(calls[id].response.status) =>
         /\ calls[id].outcome.kind = "threw"
         /\ "statusCode" \in DOMAIN calls[id].outcome.error.o

\* C13: the object loadCredentials() returns holds, for each of the five
\* canonical keys, the camelCase value of the file when that is usable and
\* the snake_case value otherwise; no property of the file overrides it.
CanonicalCredentials ==
  Returning("loadCredentials") /\ ret.outcome.kind = "returned" =>
    LET raw == JSONparse(fs.credentials).value
    IN \A k \in DOMAIN Aliases :
         Get(ret.outcome.value, k) =
           IF Truthy(Get(raw, k)) THEN Get(raw, k) ELSE Get(raw, Aliases[k])

\* C14: saveCredentials makes the directory when it is missing, and at every
\* point of a write, interrupted or not, the file holds the complete previous
\* text or the complete new one.
CredentialsWrittenAtomically ==
  /\ fs.credentials # Null => fs.configDir
  /\ fs.credentials # Null => JSONparse(fs.credentials).kind = "returned"
  /\ (ret # Null /\ ret.op = "saveCredentials") =>
       fs.credentials \in {ret.before.fs.credentials, JSONstringify(ret.args)}

(***************************************************************************)
(* The feed filter                                                         *)
(***************************************************************************)
FilterOptions ==
  {EmptyObj,
   Obj("minScore" :> Num(5) @@ "keywords" :> Arr(<<Str(<<"s", "e", "c", "u", "r", "i", "t", "y">>)>>)),
   Obj("sort" :> Str(<<"n", "e", "w">>) @@ "limit" :> Num(MaxLimit) @@ "maxComments" :> Num(2)
       @@ "excludeKeywords" :> Arr(<<Str(<<"C", "a", "t", "s">>)>>)),
   Obj("keywords" :> Arr(<<Str(<<"z", "z", "z">>), Str(<<"k", " ", "X">>)>>)
       @@ "excludeKeywords" :> Arr(<<Str(<<"c", "a", "t">>)>>))}

FeedPost(score, title, content, commentCount) ==
  Obj("score" :> Num(score) @@ "title" :> Str(title) @@ "content" :> Str(content)
      @@ "commentCount" :> Num(commentCount))

\* A post in the shape scripts/check-feed.js reads: votes and comment_count,
\* no score and no commentCount.
VotesPost == Obj("title" :> Str(<<"S", "e", "c", "u", "r", "i", "t", "y">>) @@ "upvotes" :> Num(1) @@ "comment_count" :> Num(99))

Feeds ==
  {<<>>,
   <<FeedPost(10, <<"S", "e", "c", "u", "r", "i", "t", "y", " ", "t", "a", "l", "k">>, <<>>, 2), FeedPost(10, <<"C", "a", "t", "s">>, <<>>, 2)>>,
   <<FeedPost(10, <<"C", "a", "t", "s">>, <<>>, 2), FeedPost(4, <<"s", "e", "c", "u", "r", "i", "t", "y">>, <<"x">>, 60),
     FeedPost(10, <<"S", "e", "c", "u", "r", "i", "t", "y", " ", "t", "a", "l", "k">>, <<>>, 2)>>,
   <<FeedPost(3, <<"A", " ", "t", "a", "l", "k">>, <<"x", " ", "c", "a", "t">>, 50), FeedPost(5, <<"T", "a", "l", "k">>, <<"X">>, 3)>>,
   <<VotesPost, FeedPost(10, <<"S", "e", "c", "u", "r", "i", "t", "y", " ", "t", "a", "l", "k">>, <<>>, 2)>>}

FilterResponses ==
  [status : {200}, headers : {<<>>, "x-ratelimit-remaining" :> <<"0">>},
   body : {Obj("posts" :> Arr(f)) : f \in Feeds}
          \cup {Null, EmptyObj, Obj("data" :> Str(<<"x">>)),
                Obj("data" :> Arr(<<>>) @@ "posts" :> Arr(<<VotesPost>>))}]
  \cup [status : {429, 500}, headers : {<<>>}, body : {Null, Obj("message" :> Str(<<"n", "o">>))}]

InitFilter ==
  /\ apiKey = Str(<<"s", "k", "1">>)
  /\ rateLimitInfo = Null
  /\ calls = <<>>
  /\ received = Null
  /\ fs = [configDir |-> FALSE, credentials |-> Null]
  /\ clock = StartClock
  /\ stateFile = [dir |-> FALSE, content |-> Null]
  /\ ret = Null
  /\ hb = [pc |-> "idle"]
  /\ lastUpdate = Null

NextFilter ==
  \/ \E id \in Callers, options \in FilterOptions : getRelevantPosts(id, options)
  \/ \E id \in Callers, response \in FilterResponses : Receive(id, response)
  \/ \E id \in Callers : FetchRejects(id)
  \/ \E id \in Callers : Complete(id)
  \/ \E id \in Callers : Settle(id)

SpecFilter == InitFilter /\ [][NextFilter]_vars

\* Calls of getRelevantPosts.
Filtering == {id \in DOMAIN calls : calls[id].local # Undefined /\ calls[id].owner = "client"}

\* The criteria of a relevant post.
Wanted(post, options) ==
  LET score == Get(post, "score")
      commentCount == Get(post, "commentCount")
      keywords == Default(options, "keywords", Arr(<<>>)).a
      excludeKeywords == Default(options, "excludeKeywords", Arr(<<>>)).a
  IN /\ score.t = "number"
     /\ score.n >= Default(options, "minScore", Num(3)).n
     /\ commentCount.t = "number"
     /\ commentCount.n <= Default(options, "maxComments", Num(50)).n
     /\ keywords # <<>> =>
          \E i \in DOMAIN keywords : includes(PostText(post), toLowerCase(keywords[i].s))
     /\ \A i \in DOMAIN excludeKeywords :
          ~includes(PostText(post), toLowerCase(excludeKeywords[i].s))

\* C15: getRelevantPosts returns exactly the posts of the feed, in feed
\* order, whose score is at least minScore, whose commentCount is at most
\* maxComments, whose lowercased "title content" contains a keyword when
\* keywords are given, and contains no excluded keyword.
RelevantPostsExactly ==
  \A id \in Filtering \cap Settled :
    LET c == calls[id]
        feed == methodOutcome("getFeed", requestOutcome(c.response))
    IN (feed.kind = "returned" /\ feed.value.t = "array") =>
         c.outcome =
           Returned(Arr(SelectSeq(feed.value.a,
                                  LAMBDA post : Wanted(post, c.local.filter))))

\* C16 as stated: getRelevantPosts issues no request and leaves the
\* rate-limit snapshot as it was.
GetRelevantPostsIsPure ==
  /\ \A id \in Sent : calls[id].local = Undefined
  /\ \A id \in Filtering : rateLimitInfo = calls[id].local.before

\* C16, amended: getRelevantPosts fetches the feed itself, with a GET /feed
\* request through the client; the response of that request replaces the
\* client's rate-limit snapshot, and when it is not ok the call throws.
FeedFetchedThenFiltered ==
  /\ \A id \in Filtering \cap Sent :
       /\ calls[id].request.method = "GET"
       /\ PathOf(calls[id].request.url) = <<"/", "f", "e", "e", "d">>
  /\ \A id \in Filtering \cap Answered :
       rateLimitInfo = Snapshot(calls[id].response.headers)
  /\ \A id \in Filtering \cap Settled :
       ~Ok(calls[id].response.status) => calls[id].outcome.kind = "threw"

\* getRelevantPosts has returned some posts of the feed it fetched, and the
\* snapshot is no longer the one it was called with.
FeedFetchedThenFilteredWitness ==
  \E id \in Filtering \cap Settled :
    /\ calls[id].outcome.kind = "returned"
    /\ calls[id].outcome.value.a # <<>>
    /\ rateLimitInfo # calls[id].local.before

(***************************************************************************)
(* The heartbeat state file (index.js)                                     *)
(***************************************************************************)
\* Interval arguments range over 1..MaxInterval hours.
MaxInterval == 2

\* Math.floor(Date.now() / 1000)
Now == clock \div 1000

\* loadHeartbeatState, were the file never read.
loadHeartbeatStateFresh(file) == Returned(Obj("lastMoltbookCheck" :> Num(0)))

loadHeartbeatState(file) ==
  IF file.content = Null THEN Returned(Obj("lastMoltbookCheck" :> Num(0)))
  ELSE JSONparse(file.content)

saveHeartbeatState(file, state) == [dir |-> TRUE, content |-> JSONstringify(state)]

\* shouldCheckMoltbook, were the comparison strict.
shouldCheckMoltbookStrict(intervalHours) ==
  LET state == loadHeartbeatState(stateFile)
  IN IF state.kind = "threw" THEN state
     ELSE IF Nullish(state.value) THEN TypeError
     ELSE Returned(Bool(Now - Or(Get(state.value, "lastMoltbookCheck"), Num(0)).n
                        > intervalHours * 3600))

\* shouldCheckMoltbook(intervalHours): what it returns in the current state.
shouldCheckMoltbook(intervalHours) ==
  LET state == loadHeartbeatState(stateFile)
  IN IF state.kind = "threw" THEN state
     ELSE IF Nullish(state.value) THEN TypeError
     ELSE Returned(Bool(Now - Or(Get(state.value, "lastMoltbookCheck"), Num(0)).n
                        >= intervalHours * 3600))

ShouldCheckMoltbook(intervalHours) ==
  /\ ret = Null
  /\ ret' = Ret("shouldCheckMoltbook", [intervalHours |-> intervalHours], "done",
                shouldCheckMoltbook(intervalHours))
  /\ UNCHANGED <<apiKey, rateLimitInfo, calls, received, fs, clock, stateFile, hb, lastUpdate>>

\* updateMoltbookCheckTime, were Date.now() stored as it is.
updateMoltbookCheckTimeMillis(file) ==
  LET state == loadHeartbeatState(file)
  IN saveHeartbeatState(file, Obj(("lastMoltbookCheck" :> Num(clock)) @@ state.value.o))

\* The file after updateMoltbookCheckTime(): the state read, with
\* lastMoltbookCheck assigned, written back.
updateMoltbookCheckTime(file) ==
  LET state == loadHeartbeatState(file)
  IN saveHeartbeatState(file, Obj(("lastMoltbookCheck" :> Num(Now)) @@ state.value.o))

UpdateMoltbookCheckTime ==
  /\ ret = Null
  /\ LET state == loadHeartbeatState(stateFile)
     IN IF state.kind = "threw" \/ Nullish(state.value)
        THEN /\ ret' = Ret("updateMoltbookCheckTime", NoArgs, "done",
                           IF state.kind = "threw" THEN state ELSE TypeError)
             /\ UNCHANGED <<stateFile, lastUpdate>>
        ELSE /\ stateFile' = updateMoltbookCheckTime(stateFile)
             /\ lastUpdate' = Num(Now)
             /\ ret' = Ret("updateMoltbookCheckTime", NoArgs, "done", Returned(Undefined))
  /\ UNCHANGED <<apiKey, rateLimitInfo, calls, received, fs, clock, hb>>

\* Time passes: by half an hour, or by half a second once.
Tick(ms) ==
  /\ ret = Null
  /\ ms < 1000 => clock % 1000 = 0
  /\ clock + ms <= StartClock + MaxHours * Hour + 500
  /\ clock' = clock + ms
  /\ UNCHANGED <<apiKey, rateLimitInfo, calls, received, fs, stateFile, ret, hb, lastUpdate>>

\* State files: absent, without the field, or with it next to other fields.
StateFiles ==
  [dir : BOOLEAN, content : {Null}]
  \cup {[dir |-> TRUE, content |-> JSONstringify(s)] :
          s \in {EmptyObj,
                 Obj("lastMoltbookCheck" :> Num(0)),
                 Obj("notes" :> Str(<<"k", "e", "e", "p">>)),
                 Obj("lastMoltbookCheck" :> Num((StartHours - 1) * 3600)
                     @@ "notes" :> Str(<<"k", "e", "e", "p">>))}}

InitState ==
  /\ apiKey = NoClient
  /\ rateLimitInfo = Null
  /\ calls = <<>>
  /\ received = Null
  /\ fs = [configDir |-> FALSE, credentials |-> Null]
  /\ clock = StartClock
  /\ stateFile \in StateFiles
  /\ ret = Null
  /\ hb = [pc |-> "idle"]
  /\ lastUpdate = Null

NextState ==
  \/ \E intervalHours \in 1..MaxInterval : ShouldCheckMoltbook(intervalHours)
  \/ UpdateMoltbookCheckTime
  \/ \E ms \in {500, Hour \div 2} : Tick(ms)
  \/ Return

SpecState == InitState /\ [][NextState]_vars

\* The lastMoltbookCheck a state file holds: 0 when the file is absent or
\* has no such field.
LastCheck(file) ==
  IF file.content = Null \/ "lastMoltbookCheck" \notin DOMAIN file.content.doc.o
  THEN 0
  ELSE file.content.doc.o["lastMoltbookCheck"].n

\* C17: shouldCheckMoltbook(intervalHours) returns true exactly when
\* now - last >= intervalHours * 3600, with last the lastMoltbookCheck of the
\* state file, or 0 when the file is absent or has no such field; it does
\* not write the state file.
DueIffIntervalElapsed ==
  Returning("shouldCheckMoltbook") =>
    /\ ret.outcome =
         Returned(Bool(Now - LastCheck(stateFile) >= ret.args.intervalHours * 3600))
    /\ stateFile = ret.before.stateFile

\* An hour after the check the state file records, shouldCheckMoltbook(2)
\* has returned false.
DueIffIntervalElapsedWitness ==
  /\ Returning("shouldCheckMoltbook")
  /\ ret.args.intervalHours = 2
  /\ stateFile.content # Null
  /\ Now - LastCheck(stateFile) = 3600
  /\ ret.outcome = Returned(Bool(FALSE))

\* C18: after updateMoltbookCheckTime(), for every interval h > 0,
\* shouldCheckMoltbook(h) is false until h * 3600 seconds have passed since
\* that update and true from then on, until the next update.
NotDueUntilIntervalElapsed ==
  lastUpdate # Null =>
    \A h \in 1..MaxInterval :
      shouldCheckMoltbook(h) = Returned(Bool(Now - lastUpdate.n >= h * 3600))

\* An hour after an update a check is due for an interval of one hour and
\* not for one of two.
NotDueUntilIntervalElapsedWitness ==
  /\ lastUpdate # Null
  /\ Now - lastUpdate.n = 3600
  /\ shouldCheckMoltbook(1) = Returned(Bool(TRUE))
  /\ shouldCheckMoltbook(2) = Returned(Bool(FALSE))

\* C19: updateMoltbookCheckTime sets lastMoltbookCheck to the current epoch
\* second and leaves every other field of the state as it was; an absent
\* file is created with lastMoltbookCheck only.
OnlyCheckTimeUpdated ==
  Returning("updateMoltbookCheckTime") =>
    LET old == ret.before.stateFile.content
        new == stateFile.content.doc.o
    IN /\ new["lastMoltbookCheck"] = Num(Now)
       /\ IF old = Null THEN DOMAIN new = {"lastMoltbookCheck"}
          ELSE /\ DOMAIN new = DOMAIN old.doc.o \cup {"lastMoltbookCheck"}
               /\ \A k \in DOMAIN old.doc.o \ {"lastMoltbookCheck"} : new[k] = old.doc.o[k]

\* An update at a later second has replaced the check time of a state file
\* and kept its notes.
OnlyCheckTimeUpdatedWitness ==
  /\ Returning("updateMoltbookCheckTime")
  /\ ret.before.stateFile.content # Null
  /\ "notes" \in DOMAIN stateFile.content.doc.o
  /\ LastCheck(ret.before.stateFile) \notin {0, Now}

(***************************************************************************)
(* The heartbeat script (examples: moltbookHeartbeat and main)             *)
(***************************************************************************)
HeartbeatFilter ==
  Obj("sort" :> Str(<<"h", "o", "t">>) @@ "limit" :> Num(20) @@ "minScore" :> Num(5)
      @@ "maxComments" :> Num(50)
      @@ "keywords" :> Arr(<<Str(<<"c", "o", "l", "l", "a", "b", "o", "r", "a", "t", "i", "o", "n">>), Str(<<"m", "u", "l", "t", "i", "-", "a", "g", "e", "n", "t">>),
                             Str(<<"s", "e", "c", "u", "r", "i", "t", "y">>), Str(<<"i", "n", "f", "r", "a", "s", "t", "r", "u", "c", "t", "u", "r", "e">>)>>)
      @@ "excludeKeywords" :> Arr(<<Str(<<"t", "o", "k", "e", "n">>), Str(<<"p", "u", "m", "p">>), Str(<<"m", "o", "o", "n", "s", "h", "o", "t">>)>>))

\* main, were moltbookHeartbeat awaited outside a try block.
mainWithoutCatch(result) ==
  [outcome |-> IF result.kind = "threw" THEN result ELSE Returned(Undefined),
   logged |-> <<>>]

\* main: the outcome of moltbookHeartbeat is printed, an error it throws is
\* caught and its message logged with console.error; main returns in both
\* cases.
main(result) ==
  [outcome |-> Returned(Undefined),
   logged |-> IF result.kind = "threw" THEN <<Prop(result.error, "message")>> ELSE <<>>]

\* The script inside moltbookHeartbeat: where it is, the posts still to
\* engage with, the comments listed last and the summary so far.
Running(pc, posts, comments, found, actions) ==
  [pc |-> pc, posts |-> posts, comments |-> comments, found |-> found,
   actions |-> actions]

\* moltbookHeartbeat has returned or thrown and main has handled it.
Finished(result) == [pc |-> "done", result |-> result, main |-> main(result)]

\* comments.some(c => c.authorName === me.handle || c.content.includes(`@${me.handle}`))
RECURSIVE AlreadyCommented(_, _)
AlreadyCommented(comments, handle) ==
  IF comments = <<>> THEN Returned(Bool(FALSE))
  ELSE LET c == Head(comments)
       IN IF Nullish(c) THEN TypeError
          ELSE IF Get(c, "authorName") = handle THEN Returned(Bool(TRUE))
          ELSE IF Get(c, "content").t # "string" THEN TypeError
          ELSE IF includes(Get(c, "content").s, <<"@">> \o TemplateString(handle))
               THEN Returned(Bool(TRUE))
          ELSE AlreadyCommented(Tail(comments), handle)

\* decideIfShouldComment: the outcomes it can have; Math.random() decides
\* when nothing else does.
decideIfShouldComment(post, comments) ==
  IF Len(comments.a) > 20 THEN {Returned(Bool(FALSE))}
  ELSE LET creds == loadCredentials(fs)
       IN IF creds.kind = "threw" THEN {creds}
          ELSE LET already == AlreadyCommented(comments.a, Get(creds.value, "handle"))
               IN IF already.kind = "threw" THEN {already}
                  ELSE IF already.value.b THEN {Returned(Bool(FALSE))}
                  ELSE {Returned(Bool(FALSE)), Returned(Bool(TRUE))}

generateThoughtfulComment(post) ==
  Str(<<"I", "n", "t", "e", "r", "e", "s", "t", "i", "n", "g", " ", "d", "i", "s", "c", "u", "s", "s", "i", "o", "n", " ", "o", "n", " ">> \o toLowerCase(Get(post, "title").s) \o <<".", " ">>
      \o <<"I", "'", "v", "e", " ", "b", "e", "e", "n", " ", "e", "x", "p", "l", "o", "r", "i", "n", "g", " ", "s", "i", "m", "i", "l", "a", "r", " ", "p", "a", "t", "t", "e", "r", "n", "s", " ", "i", "n", " ", "m", "u", "l", "t", "i", "-", "a", "g", "e", "n", "t", " ", "c", "o", "o", "r", "d", "i", "n", "a", "t", "i", "o", "n", ".", " ">>
      \o <<"W", "o", "u", "l", "d", " ", "b", "e", " ", "c", "u", "r", "i", "o", "u", "s", " ", "t", "o", " ", "c", "o", "l", "l", "a", "b", "o", "r", "a", "t", "e", " ", "o", "n", " ", "t", "h", "i", "s", " ", "f", "u", "r", "t", "h", "e", "r", ".">>)

\* moltbookHeartbeat up to its first await: the interval check, createClient.
HbStart ==
  /\ hb.pc = "idle"
  /\ ret = Null
  /\ calls = <<>>
  /\ LET due == shouldCheckMoltbook(2)
         creds == loadCredentials(fs)
     IN IF due.kind = "threw"
        THEN hb' = Finished(due) /\ UNCHANGED <<apiKey, rateLimitInfo, received>>
        ELSE IF ~due.value.b
        THEN /\ hb' = Finished(Returned(Obj("action" :> Str(<<"s", "k", "i", "p">>)
                                 @@ "reason" :> Str(<<"T", "o", "o", " ", "s", "o", "o", "n", " ", "s", "i", "n", "c", "e", " ", "l", "a", "s", "t", " ", "c", "h", "e", "c", "k">>))))
             /\ UNCHANGED <<apiKey, rateLimitInfo, received>>
        ELSE IF creds.kind = "threw"
        THEN hb' = Finished(creds) /\ UNCHANGED <<apiKey, rateLimitInfo, received>>
        ELSE /\ apiKey' = Get(creds.value, "apiKey")
             /\ rateLimitInfo' = Null
             /\ received' = Null
             /\ hb' = Running("me", <<>>, Arr(<<>>), 0, <<>>)
  /\ UNCHANGED <<calls, fs, clock, stateFile, ret, lastUpdate>>

\* The request the script sends where it is.
HbSend(id) ==
  /\ ret = Null
  /\ \/ hb.pc = "me" /\ me(id)
     \/ hb.pc = "feed" /\ getRelevantPosts(id, HeartbeatFilter)
     \/ /\ hb.pc = "comments"
        /\ listComments(id, TemplateString(Get(Head(hb.posts), "id")),
                        Obj("sort" :> Str(<<"t", "o", "p">>) @@ "limit" :> Num(10)))
     \/ hb.pc = "upvote" /\ upvotePost(id, TemplateString(Get(Head(hb.posts), "id")))
     \/ /\ hb.pc = "comment"
        /\ createComment(id, Obj("postId" :> Get(Head(hb.posts), "id")
                                 @@ "content" :> generateThoughtfulComment(Head(hb.posts))))

\* What the script does with the value an await produced, up to its next
\* await or its return: the records it can go on with.
HbContinue(value) ==
  LET post == Head(hb.posts)
      sleeping(actions) ==
        Running("sleep", hb.posts, hb.comments, hb.found, actions)
      upvoted == Append(hb.actions, Obj("type" :> Str(<<"u", "p", "v", "o", "t", "e">>)
                                        @@ "postId" :> Get(post, "id")))
  IN CASE hb.pc = "me" ->
            {IF Nullish(value) THEN Finished(TypeError)
             ELSE Running("feed", <<>>, Arr(<<>>), 0, <<>>)}
       [] hb.pc = "feed" ->
            {Running(IF value.a = <<>> THEN "update" ELSE "comments",
                     SubSeq(value.a, 1, IF Len(value.a) < 3 THEN Len(value.a) ELSE 3),
                     Arr(<<>>), Len(value.a), <<>>)}
       [] hb.pc = "comments" ->
            {Running("upvote", hb.posts, value, hb.found, hb.actions)}
       [] hb.pc = "upvote" ->
            IF hb.comments.t # "array" THEN {Finished(TypeError)}
            ELSE {IF decision.kind = "threw" THEN Finished(decision)
                  ELSE IF ~decision.value.b THEN sleeping(upvoted)
                  ELSE IF Get(post, "title").t # "string"
                       THEN Finished(TypeError)
                  ELSE Running("comment", hb.posts, hb.comments, hb.found, upvoted) :
                    decision \in decideIfShouldComment(post, hb.comments)}
       [] hb.pc = "comment" ->
            {IF Nullish(value) THEN Finished(TypeError)
             ELSE sleeping(Append(hb.actions,
                                  Obj("type" :> Str(<<"c", "o", "m", "m", "e", "n", "t">>)
                                      @@ "postId" :> Get(post, "id")
                                      @@ "commentId" :> Get(value, "id"))))}

\* HbResume, were an error of an engagement step caught and the run taken
\* to its end.
HbResumeCatchesErrors(id) ==
  /\ hb.pc \in {"me", "feed", "comments", "upvote", "comment"}
  /\ id \in DOMAIN calls
  /\ calls[id].stage = "settled"
  /\ calls' = [i \in DOMAIN calls \ {id} |-> calls[i]]
  /\ LET out == calls[id].outcome
     IN IF out.kind = "threw"
        THEN hb' = Running("update", hb.posts, hb.comments, hb.found, hb.actions)
        ELSE hb' \in HbContinue(out.value)
  /\ UNCHANGED <<apiKey, rateLimitInfo, received, fs, clock, stateFile, ret, lastUpdate>>

\* The await of the script resumes: with the value of the call, or with its
\* error, which moltbookHeartbeat does not catch.
HbResume(id) ==
  /\ hb.pc \in {"me", "feed", "comments", "upvote", "comment"}
  /\ id \in DOMAIN calls
  /\ calls[id].stage = "settled"
  /\ calls' = [i \in DOMAIN calls \ {id} |-> calls[i]]
  /\ LET out == calls[id].outcome
     IN IF out.kind = "threw" THEN hb' = Finished(out)
        ELSE hb' \in HbContinue(out.value)
  /\ UNCHANGED <<apiKey, rateLimitInfo, received, fs, clock, stateFile, ret, lastUpdate>>

\* await sleep(5000) has passed; the loop goes on with the next post.
HbSleep ==
  /\ hb.pc = "sleep"
  /\ clock' = clock + 5000
  /\ hb' = Running(IF Tail(hb.posts) = <<>> THEN "update" ELSE "comments",
                   Tail(hb.posts), Arr(<<>>), hb.found, hb.actions)
  /\ UNCHANGED <<apiKey, rateLimitInfo, calls, received, fs, stateFile, ret, lastUpdate>>

\* After the loop: updateMoltbookCheckTime() and the summary.
HbUpdate ==
  /\ hb.pc = "update"
  /\ LET state == loadHeartbeatState(stateFile)
     IN IF state.kind = "threw" \/ Nullish(state.value)
        THEN /\ hb' = Finished(IF state.kind = "threw" THEN state ELSE TypeError)
             /\ UNCHANGED <<stateFile, lastUpdate>>
        ELSE /\ stateFile' = updateMoltbookCheckTime(stateFile)
             /\ lastUpdate' = Num(Now)
             /\ hb' = Finished(Returned(Obj("foundPosts" :> Num(hb.found)
                                            @@ "actions" :> Arr(hb.actions))))
  /\ UNCHANGED <<apiKey, rateLimitInfo, calls, received, fs, clock, ret>>

\* Bodies that answer every request of the script, and ones that do not.
HbBodies ==
  LET HbPost(id, title) == Obj(("id" :> Str(id)) @@ FeedPost(10, title, <<>>, 2).o)
      HbComment(author, content) ==
        Obj("authorName" :> Str(author) @@ "content" :> Str(content))
  IN
  {EmptyObj,
   Obj("agent" :> Obj("name" :> Str(<<"b", "o", "t">>))
       @@ "posts" :> Arr(<<HbPost(<<"p", "1">>, <<"S", "e", "c", "u", "r", "i", "t", "y", " ", "t", "a", "l", "k">>), HbPost(<<"p", "2">>, <<"C", "a", "t", "s">>),
                           HbPost(<<"p", "3">>, <<"I", "n", "f", "r", "a", "s", "t", "r", "u", "c", "t", "u", "r", "e">>), HbPost(<<"p", "4">>, <<"s", "e", "c", "u", "r", "i", "t", "y">>),
                           HbPost(<<"p", "5">>, <<"O", "n", " ", "C", "o", "l", "l", "a", "b", "o", "r", "a", "t", "i", "o", "n">>)>>)
       @@ "comments" :> Arr(<<HbComment(<<"a", "l">>, <<"h", "i">>)>>)
       @@ "comment" :> Obj("id" :> Str(<<"c", "9">>))),
   Obj("agent" :> Obj("name" :> Str(<<"b", "o", "t">>))
       @@ "posts" :> Arr(<<HbPost(<<"p", "1">>, <<"S", "e", "c", "u", "r", "i", "t", "y", " ", "t", "a", "l", "k">>)>>)
       @@ "comments" :> Arr(<<HbComment(<<"a", "l">>, <<"h", "i", " ", "@", "b", "o", "t">>)>>))}

HbResponses ==
  [status : {200}, headers : {<<>>}, body : HbBodies]
  \cup [status : {500}, headers : {<<>>}, body : {Obj("message" :> Str(<<"n", "o">>))}]

InitHeartbeat ==
  /\ apiKey = NoClient
  /\ rateLimitInfo = Null
  /\ calls = <<>>
  /\ received = Null
  /\ fs \in {[configDir |-> FALSE, credentials |-> Null],
             [configDir |-> TRUE,
              credentials |-> JSONstringify(Obj("apiKey" :> Str(<<"s", "k", "1">>)
                                                @@ "handle" :> Str(<<"b", "o", "t">>)))]}
  /\ clock = StartClock
  /\ stateFile \in {f \in StateFiles :
                      /\ f.dir
                      /\ f.content # Null =>
                           Get(f.content.doc, "lastMoltbookCheck") # Undefined}
  /\ ret = Null
  /\ hb = [pc |-> "idle"]
  /\ lastUpdate = Null

NextHeartbeat ==
  \/ HbStart
  \/ \E id \in Callers : HbSend(id)
  \/ \E id \in Callers, response \in HbResponses : Receive(id, response)
  \/ \E id \in Callers : FetchRejects(id)
  \/ \E id \in Callers : Complete(id)
  \/ \E id \in Callers : HbResume(id)
  \/ HbSleep
  \/ HbUpdate

SpecHeartbeat == InitHeartbeat /\ [][NextHeartbeat]_vars

\* C20: main of the heartbeat script never fails: whatever moltbookHeartbeat
\* throws (missing credentials, a response that is not ok, a transport
\* failure) is caught and logged and main returns; the client methods and
\* moltbookHeartbeat do not swallow a remote failure, they throw it on.
HeartbeatFailuresStopAtMain ==
  /\ [](hb.pc = "done" =>
         /\ hb.main.outcome.kind = "returned"
         /\ hb.result.kind = "threw" =>
              hb.main.logged = <<Prop(hb.result.error, "message")>>)
  /\ [](\A id \in DOMAIN calls :
         (/\ calls[id].stage = "settled"
          /\ (calls[id].response = Null \/ ~Ok(calls[id].response.status)))
           => calls[id].outcome.kind = "threw")
  /\ [][\A id \in DOMAIN calls :
          (/\ calls[id].stage = "settled"
           /\ calls[id].outcome.kind = "threw"
           /\ id \notin DOMAIN calls')
            => (hb'.pc = "done" /\ hb'.result = calls[id].outcome)]_vars

\* The error of a response with status 500 has gone through
\* moltbookHeartbeat, and main has logged its message and returned.
HeartbeatFailuresStopAtMainWitness ==
  /\ hb.pc = "done"
  /\ hb.result.kind = "threw"
  /\ Prop(hb.result.error, "statusCode") = Num(500)
  /\ hb.main.outcome = Returned(Undefined)
  /\ hb.main.logged = <<Str(<<"n", "o">>)>>

(***************************************************************************)
(* The engagement script (scripts/engage.js)                               *)
(***************************************************************************)
\* The options main starts with.
EngageDefaults ==
  Obj("sort" :> Str(<<"h", "o", "t">>) @@ "limit" :> Num(20) @@ "minScore" :> Num(3)
      @@ "maxComments" :> Num(50) @@ "keywords" :> Arr(<<>>)
      @@ "excludeKeywords" :> Arr(<<>>) @@ "maxEngagements" :> Num(3))

\* String.prototype.trim
trim(s) ==
  LET solid == {i \in DOMAIN s : s[i] \notin WhiteSpace}
  IN IF solid = {} THEN <<>>
     ELSE SubSeq(s, CHOOSE i \in solid : \A j \in solid : i <= j,
                    CHOOSE i \in solid : \A j \in solid : j <= i)

\* The loop over process.argv: --dry-run stands alone, an option takes the
\* argument after it as its value, anything else is skipped.
RECURSIVE ParseArgs(_, _, _)
ParseArgs(args, dryRun, options) ==
  LET arg == Head(args)
      key == IF Len(arg) >= 2 /\ SubSeq(arg, 1, 2) = <<"-", "-">>
             THEN SubSeq(arg, 3, Len(arg)) ELSE arg
      lists == (<<"k", "e", "y", "w", "o", "r", "d", "s">> :> "keywords") @@ (<<"e", "x", "c", "l", "u", "d", "e">> :> "excludeKeywords")
      numbers == (<<"l", "i", "m", "i", "t">> :> "limit") @@ (<<"m", "i", "n", "S", "c", "o", "r", "e">> :> "minScore")
                 @@ (<<"m", "a", "x", "C", "o", "m", "m", "e", "n", "t", "s">> :> "maxComments")
                 @@ (<<"m", "a", "x", "E", "n", "g", "a", "g", "e", "m", "e", "n", "t", "s">> :> "maxEngagements")
      given == Len(args) >= 2
      rest == IF given THEN Tail(Tail(args)) ELSE <<>>
      with(name, value) == Obj((name :> value) @@ options.o)
  IN IF args = <<>> THEN Returned([dryRun |-> dryRun, options |-> options])
     ELSE IF arg = <<"-", "-", "d", "r", "y", "-", "r", "u", "n">> THEN ParseArgs(Tail(args), TRUE, options)
     ELSE IF key \in DOMAIN lists
          THEN IF ~given THEN TypeError
               ELSE LET parts == Split(args[2], ",")
                    IN ParseArgs(rest, dryRun,
                                 with(lists[key],
                                      Arr([i \in DOMAIN parts |-> Str(trim(parts[i]))])))
     ELSE IF key \in DOMAIN numbers
          THEN ParseArgs(rest, dryRun,
                         with(numbers[key],
                              parseInt(IF given THEN args[2] ELSE <<"u", "n", "d", "e", "f", "i", "n", "e", "d">>)))
     ELSE IF key = <<"s", "o", "r", "t">>
          THEN ParseArgs(rest, dryRun,
                         with("sort", IF given THEN Str(args[2]) ELSE Undefined))
     ELSE ParseArgs(Tail(args), dryRun, options)

\* posts.slice(0, end)
slice(posts, end) ==
  LET n == CASE end.t = "undefined" -> Len(posts)
             [] end.t = "number" /\ end.n < 0 ->
                  IF Len(posts) + end.n < 0 THEN 0 ELSE Len(posts) + end.n
             [] end.t = "number" -> IF end.n < Len(posts) THEN end.n ELSE Len(posts)
             [] OTHER -> 0
  IN SubSeq(posts, 1, n)

\* The script at an await or at its end: the flag and options of the run,
\* the posts still to engage with, the posts it has logged as upvoted, and
\* how main has ended (Null before that).
Engaging(pc, dryRun, options, posts, upvoted, outcome) ==
  [pc |-> pc, dryRun |-> dryRun, options |-> options, posts |-> posts,
   upvoted |-> upvoted, outcome |-> outcome]

\* The head of the loop body: post.content.substring throws for a post
\* without content; after the last post main returns.
EngageNext(posts, upvoted) ==
  Engaging(IF posts = <<>> \/ Get(Head(posts), "content").t # "string"
           THEN "done" ELSE "comments",
           hb.dryRun, hb.options, posts, upvoted,
           IF posts = <<>> THEN Returned(Undefined)
           ELSE IF Get(Head(posts), "content").t # "string" THEN TypeError
           ELSE Null)

\* main up to its first await: the arguments, createClient().
EngageStart(args) ==
  /\ hb.pc = "idle"
  /\ calls = <<>>
  /\ LET parsed == ParseArgs(args, FALSE, EngageDefaults)
         creds == loadCredentials(fs)
         failed == IF parsed.kind = "threw" THEN parsed ELSE creds
     IN IF failed.kind = "threw"
        THEN /\ hb' = Engaging("done", FALSE, EngageDefaults, <<>>, <<>>, failed)
             /\ UNCHANGED <<apiKey, rateLimitInfo, received>>
        ELSE /\ apiKey' = Get(creds.value, "apiKey")
             /\ rateLimitInfo' = Null
             /\ received' = Null
             /\ hb' = Engaging("feed", parsed.value.dryRun, parsed.value.options,
                               <<>>, <<>>, Null)
  /\ UNCHANGED <<calls, fs, clock, stateFile, ret, lastUpdate>>

\* The request main sends where it is.
EngageSend(id) ==
  \/ hb.pc = "feed" /\ getRelevantPosts(id, hb.options)
  \/ /\ hb.pc = "comments"
     /\ listComments(id, TemplateString(Get(Head(hb.posts), "id")),
                     Obj("sort" :> Str(<<"t", "o", "p">>) @@ "limit" :> Num(10)))
  \/ hb.pc = "upvote" /\ upvotePost(id, TemplateString(Get(Head(hb.posts), "id")))

\* An await of main resumes, with the value of the call or with its error,
\* which ends main.
EngageResume(id) ==
  /\ hb.pc \in {"feed", "comments", "upvote"}
  /\ id \in DOMAIN calls
  /\ calls[id].stage = "settled"
  /\ calls' = [i \in DOMAIN calls \ {id} |-> calls[i]]
  /\ LET out == calls[id].outcome
     IN hb' =
          IF out.kind = "threw"
          THEN Engaging("done", hb.dryRun, hb.options, hb.posts, hb.upvoted, out)
          ELSE CASE hb.pc = "feed" ->
                      EngageNext(slice(out.value.a, Get(hb.options, "maxEngagements")), <<>>)
                 [] hb.pc = "comments" ->
                      IF hb.dryRun THEN EngageNext(Tail(hb.posts), hb.upvoted)
                      ELSE Engaging("upvote", hb.dryRun, hb.options, hb.posts,
                                    hb.upvoted, Null)
                 [] hb.pc = "upvote" ->
                      EngageNext(Tail(hb.posts),
                                 Append(hb.upvoted, Get(Head(hb.posts), "id")))
  /\ UNCHANGED <<apiKey, rateLimitInfo, received, fs, clock, stateFile, ret, lastUpdate>>

\* Command lines.
EngageArgs ==
  {<<>>, <<<<"-", "-", "d", "r", "y", "-", "r", "u", "n">>>>,
   <<<<"-", "-", "m", "a", "x", "E", "n", "g", "a", "g", "e", "m", "e", "n", "t", "s">>, NatToString(MaxLimit)>>,
   <<<<"-", "-", "d", "r", "y", "-", "r", "u", "n">>, <<"-", "-", "m", "a", "x", "E", "n", "g", "a", "g", "e", "m", "e", "n", "t", "s">>, <<"2">>, <<"-", "-", "s", "o", "r", "t">>, <<"n", "e", "w">>>>,
   <<<<"-", "-", "m", "a", "x", "E", "n", "g", "a", "g", "e", "m", "e", "n", "t", "s">>, <<"-", "1">>>>,
   <<<<"-", "-", "m", "a", "x", "E", "n", "g", "a", "g", "e", "m", "e", "n", "t", "s">>, <<"0">>, <<"-", "-", "l", "i", "m", "i", "t">>>>,
   <<<<"-", "-", "k", "e", "y", "w", "o", "r", "d", "s">>, <<"S", "e", "c", "u", "r", "i", "t", "y", " ", ",", " ", "c", "a", "t", "s">>, <<"-", "-", "e", "x", "c", "l", "u", "d", "e">>, <<"t", "a", "l", "k">>>>,
   <<<<"-", "-", "d", "r", "y", "-", "r", "u", "n">>, <<"-", "-", "e", "x", "c", "l", "u", "d", "e">>>>}

\* What the server answers: the feeds of the heartbeat, and a feed whose post
\* has no content.
EngageResponses ==
  HbResponses
  \cup {[status |-> 200, headers |-> <<>>, body |-> Obj("posts" :> Arr(<<VotesPost>>))]}

InitEngage ==
  /\ apiKey = NoClient
  /\ rateLimitInfo = Null
  /\ calls = <<>>
  /\ received = Null
  /\ fs \in {[configDir |-> FALSE, credentials |-> Null],
             [configDir |-> TRUE,
              credentials |-> JSONstringify(Obj("apiKey" :> Str(<<"s", "k", "1">>)))]}
  /\ clock = StartClock
  /\ stateFile = [dir |-> FALSE, content |-> Null]
  /\ ret = Null
  /\ hb = [pc |-> "idle"]
  /\ lastUpdate = Null

NextEngage ==
  \/ \E args \in EngageArgs : EngageStart(args)
  \/ \E id \in Callers : EngageSend(id)
  \/ \E id \in Callers, response \in EngageResponses : Receive(id, response)
  \/ \E id \in Callers : FetchRejects(id)
  \/ \E id \in Callers : Complete(id)
  \/ \E id \in Callers : EngageResume(id)

SpecEngage == InitEngage /\ [][NextEngage]_vars

\* C21: a run with --dry-run sends only the GET requests for the feed and
\* for comments and never an upvote or a comment; a run without it upvotes
\* at most maxEngagements posts, and none twice.
EngagementBounded ==
  hb.pc # "idle" =>
    LET upvotes == {id \in DOMAIN calls : calls[id].op = "upvotePost"}
        maxEngagements == Get(hb.options, "maxEngagements")
    IN /\ hb.dryRun =>
            /\ hb.upvoted = <<>>
            /\ \A id \in Sent :
                 /\ calls[id].request.method = "GET"
                 /\ calls[id].op \in {"getFeed", "listComments"}
       /\ \A i, j \in DOMAIN hb.upvoted : hb.upvoted[i] = hb.upvoted[j] => i = j
       /\ \A id \in upvotes : \A i \in DOMAIN hb.upvoted : hb.upvoted[i] # Get(Head(hb.posts), "id")
       /\ maxEngagements.t = "number" =>
            Len(hb.upvoted) + Cardinality(upvotes) <= maxEngagements.n

(***************************************************************************)
(* A caller of register(data)                                              *)
(***************************************************************************)
\* A script that awaits register(data) and then uses isRegistered(),
\* loadCredentials() and createClient(): where it is, the data it passed, the
\* credential file when it called, the response the registration got (Null
\* for none) and what register() gave the script.
Registering(pc, data, before, response, outcome) ==
  [pc |-> pc, data |-> data, before |-> before, response |-> response,
   outcome |-> outcome]

\* The script calls register(data).
RegisterStart(data) ==
  /\ hb.pc \in {"idle", "registered", "failed"}
  /\ ret = Null
  /\ calls = <<>>
  /\ hb' = Registering("register", data, fs, Null, Null)
  /\ UNCHANGED <<apiKey, rateLimitInfo, calls, received, fs, clock, stateFile, ret, lastUpdate>>

\* register(): await client.agents.register(data)
RegisterSend(id) ==
  /\ hb.pc = "register"
  /\ indexRegister(id, hb.data)

\* The await of register(data) resumes with its result or its error.
RegisterResume(id) ==
  /\ hb.pc = "register"
  /\ id \in DOMAIN calls
  /\ calls[id].stage = "settled"
  /\ calls' = [i \in DOMAIN calls \ {id} |-> calls[i]]
  /\ hb' = Registering(IF calls[id].outcome.kind = "returned" THEN "registered" ELSE "failed",
                       hb.data, hb.before, calls[id].response, calls[id].outcome)
  /\ UNCHANGED <<apiKey, rateLimitInfo, received, fs, clock, stateFile, ret, lastUpdate>>

\* The script uses the credentials after register() has settled.
RegisterUse ==
  /\ hb.pc \in {"registered", "failed"}
  /\ \/ IsRegistered
     \/ LoadCredentials
     \/ createClient(EmptyObj)
     \/ Return

\* Data of a registration, with and without a name.
RegisterInputs == RegisterData \cup {Obj("name" :> Str(<<"m">>)), EmptyObj}

\* What POST /agents/register answers: an agent with a key, without one, with
\* a null or empty one, no agent, and failures.
RegisterResponses ==
  [status : {200, 201}, headers : {<<>>},
   body : {Obj("agent" :> Obj("api_key" :> IssuedKey @@ "claim_url" :> Str(<<"c">>)
                             @@ "verification_code" :> Str(<<"v">>))),
           Obj("agent" :> Obj("api_key" :> Str(<<"s", "k", "3">>))),
           Obj("agent" :> Obj("api_key" :> Null)),
           Obj("agent" :> Obj("api_key" :> Str(<<>>))),
           Obj("agent" :> EmptyObj), EmptyObj, Null, Unparseable}]
  \cup [status : {429, 500}, headers : {<<>>},
        body : {Obj("message" :> Str(<<"t", "a", "k", "e", "n">>)), Null, Unparseable,
                Obj("agent" :> Obj("api_key" :> IssuedKey))}]

InitRegister ==
  /\ apiKey = NoClient
  /\ rateLimitInfo = Null
  /\ calls = <<>>
  /\ received = Null
  /\ fs \in {[configDir |-> FALSE, credentials |-> Null],
             [configDir |-> TRUE, credentials |-> Null],
             [configDir |-> TRUE,
              credentials |-> JSONstringify(Obj("api_key" :> Str(<<"s", "k", "1">>)
                                                @@ "agent_name" :> Str(<<"o", "l", "d">>)
                                                @@ "createdAt" :> Str(<<"c">>)))],
             [configDir |-> TRUE, credentials |-> Unparseable]}
  /\ clock = StartClock
  /\ stateFile = [dir |-> FALSE, content |-> Null]
  /\ ret = Null
  /\ hb = [pc |-> "idle"]
  /\ lastUpdate = Null

NextRegister ==
  \/ \E data \in RegisterInputs : RegisterStart(data)
  \/ \E id \in Callers : RegisterSend(id)
  \/ \E id \in Callers, response \in RegisterResponses : Receive(id, response)
  \/ \E id \in Callers : FetchRejects(id)
  \/ \E id \in Callers : Complete(id)
  \/ \E id \in Callers : RegisterResume(id)
  \/ RegisterUse

SpecRegister == InitRegister /\ [][NextRegister]_vars

\* The key the server issued and the name the caller registered.
IssuedTo == Get(Get(hb.outcome.value, "agent"), "api_key")

RegisteredAs == Get(hb.data, "name")

\* C22: once register(data) has returned, the credential file exists and
\* holds the issued key as apiKey and data.name as handle and nothing of an
\* earlier file; isRegistered() returns true and createClient() makes a
\* client whose apiKey is the issued key.
RegisterSavesIssuedKey ==
  hb.pc = "registered" =>
    /\ fs.configDir
    /\ fs.credentials # Null
    /\ JSONparse(fs.credentials).kind = "returned"
    /\ LET doc == JSONparse(fs.credentials).value
       IN /\ DOMAIN doc.o \subseteq {"apiKey", "handle", "profileUrl", "verificationCode",
                                     "claimUrl", "registered", "twitterVerified"}
          /\ IssuedTo # Undefined => Get(doc, "apiKey") = IssuedTo
          /\ RegisteredAs # Undefined => Get(doc, "handle") = RegisteredAs
    /\ loadCredentials(fs).kind = "returned"
    /\ Get(loadCredentials(fs).value, "apiKey") = IssuedTo
    /\ Get(loadCredentials(fs).value, "handle") = RegisteredAs
    /\ Returning("isRegistered") => ret.outcome = Returned(Bool(TRUE))
    /\ Returning("loadCredentials") => ret.outcome.kind = "returned"
    /\ Returning("createClient") =>
         ret.outcome = Returned(ClientInstance) /\ apiKey = IssuedTo

\* A second register() has replaced the credentials of the first with a
\* different key, and createClient() has made a client with it.
RegisterSavesIssuedKeyWitness ==
  /\ hb.pc = "registered"
  /\ hb.before.credentials = JSONstringify(registerCredentials(Obj("name" :> Str(<<"m">>)),
                                             Obj("agent" :> Obj("api_key" :> Str(<<"s", "k", "3">>)))))
  /\ hb.data = Obj("name" :> Str(<<"b", "o", "t">>) @@ "description" :> Str(<<"d">>))
  /\ Returning("createClient")
  /\ apiKey = IssuedKey

\* C26: when the registration call fails, by an answer that is not 2xx or by
\* a rejected fetch, register(data) throws, the credential file is as it was
\* when register was called, and isRegistered() returns what it returned
\* before.
RegisterFailureKeepsCredentials ==
  /\ \A id \in DOMAIN calls :
       (/\ calls[id].owner = "register"
        /\ calls[id].stage = "settled"
        /\ (calls[id].response = Null \/ ~Ok(calls[id].response.status)))
       => calls[id].outcome.kind = "threw" /\ fs = hb.before
  /\ (/\ hb.pc \in {"registered", "failed"}
      /\ (hb.response = Null \/ ~Ok(hb.response.status)))
     => /\ hb.pc = "failed"
        /\ fs = hb.before
        /\ Returning("isRegistered") =>
             ret.outcome = Returned(Bool(hb.before.credentials # Null))

\* The server has refused the registration with an answer that names an
\* agent and a key, over credentials of an earlier registration, and
\* isRegistered() has returned.
RegisterFailureKeepsCredentialsWitness ==
  /\ hb.pc = "failed"
  /\ hb.response # Null
  /\ hb.response.status = 500
  /\ hb.response.body = Obj("agent" :> Obj("api_key" :> IssuedKey))
  /\ hb.before.credentials = JSONstringify(Obj("api_key" :> Str(<<"s", "k", "1">>)
                                               @@ "agent_name" :> Str(<<"o", "l", "d">>)
                                               @@ "createdAt" :> Str(<<"c">>)))
  /\ Returning("isRegistered")

(***************************************************************************)
(* Several requests in flight on one client                                *)
(***************************************************************************)
\* The number of requests a caller starts without awaiting the one before.
MaxInFlight == 3

\* A caller starts the next request; the requests are numbered in the order
\* they are issued.
IssueNext(id) ==
  /\ \A earlier \in 1..(id - 1) : earlier \in DOMAIN calls
  /\ \/ me(id)
     \/ getFeed(id, NoOptions)

\* Responses with different rate-limit headers, and with none.
ConcurrentResponses ==
  {[status |-> 200, body |-> EmptyObj,
    headers |-> ("x-ratelimit-limit" :> <<"9">> @@ "x-ratelimit-remaining" :> <<"1">>
                 @@ "x-ratelimit-reset" :> <<"5">>)],
   [status |-> 200, body |-> EmptyObj,
    headers |-> ("x-ratelimit-remaining" :> <<"0">> @@ "x-ratelimit-reset" :> <<"7">>)],
   [status |-> 429, body |-> Obj("message" :> Str(<<"s", "l", "o", "w", " ", "d", "o", "w", "n">>)), headers |-> <<>>]}

InitConcurrent ==
  /\ apiKey = Str(<<"s", "k", "1">>)
  /\ rateLimitInfo = Null
  /\ calls = <<>>
  /\ received = Null
  /\ fs = [configDir |-> FALSE, credentials |-> Null]
  /\ clock = StartClock
  /\ stateFile = [dir |-> FALSE, content |-> Null]
  /\ ret = Null
  /\ hb = [pc |-> "idle"]
  /\ lastUpdate = Null

NextConcurrent ==
  \/ \E id \in 1..MaxInFlight : IssueNext(id)
  \/ \E id \in 1..MaxInFlight, response \in ConcurrentResponses : Receive(id, response)
  \/ \E id \in 1..MaxInFlight : FetchRejects(id)
  \/ \E id \in 1..MaxInFlight : Complete(id)

SpecConcurrent == InitConcurrent /\ [][NextConcurrent]_vars

\* The response of a call arrives in this step.
Arrives(id) ==
  /\ id \in DOMAIN calls
  /\ calls[id].stage = "sent"
  /\ calls'[id].stage = "received"

\* C23: with several requests in flight on one client, the arrival of a
\* response replaces the snapshot by the one derived from that response,
\* whatever was issued or has arrived before, and nothing else changes it;
\* so the snapshot is always the whole snapshot of one response that has
\* arrived, and when all requests have completed it is that of the response
\* that arrived last.
SnapshotLastWriteWins ==
  /\ [][/\ \A id \in DOMAIN calls :
             Arrives(id) => rateLimitInfo' = Snapshot(calls'[id].response.headers)
        /\ (\A id \in DOMAIN calls : ~Arrives(id)) => rateLimitInfo' = rateLimitInfo]_vars
  /\ [](\/ rateLimitInfo = Null /\ Answered = {}
        \/ \E id \in Answered : rateLimitInfo = Snapshot(calls[id].response.headers))
  /\ []((/\ DOMAIN calls = 1..MaxInFlight
         /\ \A id \in DOMAIN calls : calls[id].stage = "settled"
         /\ received # Null)
        => rateLimitInfo = Snapshot(received.headers))

\* All requests have completed; the response of the first one issued arrived
\* after the different response of the last one issued, and the snapshot is
\* that of the first.
SnapshotLastWriteWinsWitness ==
  /\ DOMAIN calls = 1..MaxInFlight
  /\ \A id \in DOMAIN calls : calls[id].stage = "settled" /\ calls[id].response # Null
  /\ rateLimitInfo = Snapshot(calls[1].response.headers)
  /\ rateLimitInfo # Snapshot(calls[MaxInFlight].response.headers)
  /\ \A id \in 2..MaxInFlight :
       calls[id].response.headers # calls[1].response.headers

(***************************************************************************)
(* A request whose fetch rejects                                           *)
(***************************************************************************)
\* Calls that have ended without a response.
Rejected == {id \in DOMAIN calls : calls[id].stage = "settled" /\ calls[id].response = Null}

\* C24: when fetch rejects, the call throws the rejection to its caller and
\* the snapshot stays what it was: that of the response received last, or
\* null when the client has received none.
RejectionKeepsSnapshot ==
  /\ [][\A id \in DOMAIN calls :
          (id \in Sent /\ id \in DOMAIN calls' /\ calls'[id].stage = "settled")
          => /\ calls'[id].outcome =
                  Threw(Error("TypeError", "message" :> Str(<<"f", "e", "t", "c", "h", " ", "f", "a", "i", "l", "e", "d">>)))
             /\ rateLimitInfo' = rateLimitInfo]_vars
  /\ [](\A id \in Rejected :
          /\ calls[id].outcome.kind = "threw"
          /\ rateLimitInfo = IF received = Null THEN Null
                             ELSE Snapshot(received.headers))

\* A request of a client that has received a response before has been
\* rejected, and the snapshot is that of the earlier response.
RejectionKeepsSnapshotWitness ==
  /\ Rejected # {}
  /\ received # Null
  /\ rateLimitInfo = Snapshot(received.headers)
  /\ rateLimitInfo.remaining = Num(1)

(***************************************************************************)
(* The heartbeat and the time of the last check                            *)
(***************************************************************************)
\* The posts the summary so far records as upvoted.
Upvoted ==
  {i \in DOMAIN hb.actions : Get(hb.actions[i], "type") = Str(<<"u", "p", "v", "o", "t", "e">>)}

\* C25: the heartbeat writes the state file only at its end, when the
\* profile and the feed have been fetched and every selected post, three at
\* most, has had its comments listed and its upvote sent without an error; a
\* run that is skipped sends no request and leaves the state file as it is;
\* a run that throws leaves lastMoltbookCheck as it was, so that the next
\* heartbeat is due again.
CheckTimeAdvancedAfterEngagement ==
  /\ [][/\ stateFile' # stateFile =>
             /\ hb.pc = "update"
             /\ calls = <<>>
             /\ received # Null
             /\ hb.posts = <<>>
             /\ Cardinality(Upvoted) = (IF hb.found < 3 THEN hb.found ELSE 3)
             /\ hb'.pc = "done"
             /\ hb'.result.kind = "returned"
             /\ LastCheck(stateFile') = Now
        /\ (hb.pc = "idle" /\ hb'.pc = "done") =>
             UNCHANGED <<stateFile, calls, received, apiKey, lastUpdate>>]_vars
  /\ []((hb.pc = "done" /\ hb.result.kind = "threw") =>
          /\ lastUpdate = Null
          /\ shouldCheckMoltbook(2) = Returned(Bool(TRUE)))
  /\ []((hb.pc = "done" /\ hb.result.kind = "returned"
         /\ Get(hb.result.value, "action") = Str(<<"s", "k", "i", "p">>)) =>
          /\ lastUpdate = Null
          /\ calls = <<>> /\ received = Null /\ apiKey = NoClient)

\* The first post has been engaged with and the run has thrown at the
\* second; the state file still holds the check time it started with.
CheckTimeAdvancedAfterEngagementWitness ==
  /\ hb.pc = "done"
  /\ hb.result.kind = "threw"
  /\ clock = StartClock + 5000
  /\ stateFile.content # Null
  /\ LastCheck(stateFile) = 0
  /\ lastUpdate = Null

====
